---- MODULE Spec2Model ----
(***************************************************************************)
(* Lifecycle orchestration of bmad-automate: router.GetLifecycle derives   *)
(* the remaining workflow steps from a story status, lifecycle.Executor    *)
(* runs them fail-fast against a WorkflowRunner, a StatusReader and a      *)
(* StatusWriter, and state.Manager keeps the resume state file.            *)
(***************************************************************************)
EXTENDS Integers, Sequences, FiniteSets, TLC

\* ------------------------------------------------------------------ bounds
\* Number of Execute and GetSteps invocations explored in one behaviour.
MaxRuns == 2
\* Largest exit code the workflow runner may return (0 is success).
MaxExitCode == 2
\* Longest list of stories a command is given.
MaxBatch == 2
\* Number of router calls explored in one behaviour.
MaxCalls == 3
\* Number of Writer.UpdateStatus calls explored in one behaviour.
MaxWrites == 2
\* The length of the configured full_cycle.steps list is at most MaxSteps.
MaxSteps == 3

\* --------------------------------------------------------- status.Status
StatusBacklog == "backlog"
StatusReadyForDev == "ready-for-dev"
StatusInProgress == "in-progress"
StatusReview == "review"
StatusDone == "done"

ValidStatuses ==
    {StatusBacklog, StatusReadyForDev, StatusInProgress, StatusReview, StatusDone}

\* Values a sprint-status.yaml entry can hold: the five statuses and two
\* values outside the enumeration (router_test.go uses "invalid" and "").
Statuses == ValidStatuses \cup {"invalid", ""}

IsValid(s) == s \in ValidStatuses

StoryKeys == {"EPIC-1-story", "test-story"}

ExitCodes == 0..MaxExitCode

\* ------------------------------------------------------------ error values
Err(kind, workflow, exitCode) ==
    [kind |-> kind, workflow |-> workflow, exitCode |-> exitCode]

NoError == Err("nil", "", 0)
ErrStoryComplete == Err("story is complete, no workflow needed", "", 0)
ErrUnknownStatus == Err("unknown status value", "", 0)
\* fmt.Errorf("workflow failed: %s returned exit code %d", ...)
WorkflowFailed(workflow, exitCode) == Err("workflow failed", workflow, exitCode)

\* ------------------------------------------------------- router.GetLifecycle
LifecycleStep(workflow, nextStatus) ==
    [Workflow |-> workflow, NextStatus |-> nextStatus]

\* GetLifecycle, lines 19-24
StepsFromBacklog ==
    << LifecycleStep("create-story", StatusReadyForDev),
       LifecycleStep("dev-story", StatusReview),
       LifecycleStep("code-review", StatusDone),
       LifecycleStep("git-commit", StatusDone) >>

\* Mutant: dev-story leaves the story at ready-for-dev, the status the
\* step before it sets.
StepsFromDev_DevStoryToReadyForDev ==
    << LifecycleStep("dev-story", StatusReadyForDev),
       LifecycleStep("code-review", StatusDone),
       LifecycleStep("git-commit", StatusDone) >>

\* GetLifecycle, lines 26-30
StepsFromDev ==
    << LifecycleStep("dev-story", StatusReview),
       LifecycleStep("code-review", StatusDone),
       LifecycleStep("git-commit", StatusDone) >>

\* GetLifecycle, lines 32-35
StepsFromReview ==
    << LifecycleStep("code-review", StatusDone),
       LifecycleStep("git-commit", StatusDone) >>

\* Mutant: in-progress falls through to the backlog case.
GetLifecycle_InProgressAsBacklog(s) ==
    CASE s \in {StatusBacklog, StatusInProgress} -> [steps |-> StepsFromBacklog, err |-> NoError]
      [] s = StatusReadyForDev -> [steps |-> StepsFromDev, err |-> NoError]
      [] s = StatusReview -> [steps |-> StepsFromReview, err |-> NoError]
      [] s = StatusDone -> [steps |-> << >>, err |-> ErrStoryComplete]
      [] OTHER -> [steps |-> << >>, err |-> ErrUnknownStatus]

\* Mutant: the default case returns the done case's sentinel.
GetLifecycle_UnknownAsComplete(s) ==
    CASE s = StatusBacklog -> [steps |-> StepsFromBacklog, err |-> NoError]
      [] s \in {StatusReadyForDev, StatusInProgress} -> [steps |-> StepsFromDev, err |-> NoError]
      [] s = StatusReview -> [steps |-> StepsFromReview, err |-> NoError]
      [] OTHER -> [steps |-> << >>, err |-> ErrStoryComplete]

\* Mutant: a story that is done is given the commit step once more.
GetLifecycle_DoneRunsCommit(s) ==
    CASE s = StatusBacklog -> [steps |-> StepsFromBacklog, err |-> NoError]
      [] s \in {StatusReadyForDev, StatusInProgress} -> [steps |-> StepsFromDev, err |-> NoError]
      [] s = StatusReview -> [steps |-> StepsFromReview, err |-> NoError]
      [] s = StatusDone -> [steps |-> << LifecycleStep("git-commit", StatusDone) >>,
                            err |-> NoError]
      [] OTHER -> [steps |-> << >>, err |-> ErrUnknownStatus]

GetLifecycle(s) ==
    CASE s = StatusBacklog -> [steps |-> StepsFromBacklog, err |-> NoError]
      [] s \in {StatusReadyForDev, StatusInProgress} -> [steps |-> StepsFromDev, err |-> NoError]
      [] s = StatusReview -> [steps |-> StepsFromReview, err |-> NoError]
      [] s = StatusDone -> [steps |-> << >>, err |-> ErrStoryComplete]
      [] OTHER -> [steps |-> << >>, err |-> ErrUnknownStatus]

\* router.GetWorkflow as it stands in router.go: the body is still the
\* placeholder, every status yields the empty workflow and a nil error.
GetWorkflow(s) == [workflow |-> "", err |-> NoError]

\* ------------------------------------------------- status reader and writer
\* StatusReader.GetStoryStatus: the stored status, or ("", error) when the
\* lookup fails.
GetStoryStatus(st, key, readOk) ==
    IF readOk
    THEN [status |-> st[key], err |-> NoError]
    ELSE [status |-> "", err |-> Err("failed to read sprint status", "", 0)]

\* Mutant: the status file is rewritten in place, so a failed write still
\* leaves the new status behind.
WriterUpdateStatus_NonAtomic(st, key, newStatus, ioOk) ==
    IF ~IsValid(newStatus)
    THEN [store |-> st, err |-> Err("invalid status", "", 0)]
    ELSE IF key \notin DOMAIN st
    THEN [store |-> st, err |-> Err("story not found", "", 0)]
    ELSE IF ~ioOk
    THEN [store |-> [st EXCEPT ![key] = newStatus],
          err |-> Err("failed to write sprint status", "", 0)]
    ELSE [store |-> [st EXCEPT ![key] = newStatus], err |-> NoError]

\* Writer.UpdateStatus: validate, read, update the story's node, write the
\* temp file and rename it over the status file.  ioOk = FALSE is a failure
\* of the read, the temp write or the rename: the status file is unchanged.
WriterUpdateStatus(st, key, newStatus, ioOk) ==
    IF ~IsValid(newStatus)
    THEN [store |-> st, err |-> Err("invalid status", "", 0)]
    ELSE IF key \notin DOMAIN st
    THEN [store |-> st, err |-> Err("story not found", "", 0)]
    ELSE IF ~ioOk
    THEN [store |-> st, err |-> Err("failed to write sprint status", "", 0)]
    ELSE [store |-> [st EXCEPT ![key] = newStatus], err |-> NoError]

\* ------------------------------------------------------------------- state
VARIABLES
    store,            \* sprint-status.yaml: story key -> status
    stateFile,        \* .bmad-state.json: {} or one state.State record
    progressCallback, \* Executor.progressCallback # nil
    pc,               \* position of the running Execute call
    storyKey,         \* Execute's storyKey argument
    currentStatus,    \* Execute's currentStatus
    steps,            \* Execute's steps
    totalSteps,       \* Execute's totalSteps
    i,                \* Execute's loop index (0-based)
    err,              \* the error Execute returned
    runnerCalls,      \* RunSingle calls of the current run
    exitCodes,        \* exit codes RunSingle returned in the current run
    writerCalls,      \* UpdateStatus calls of the current run
    writeResults,     \* errors UpdateStatus returned in the current run
    callbackCalls,    \* progress callback calls of the current run
    trace,            \* collaborator calls of the current run, in order
    runs,             \* number of invocations so far
    getSteps,         \* what the last GetSteps call returned
    commits,          \* per story: successful git-commit runs so far
    initStore,        \* sprint-status.yaml as it was at the start
    ctxCancelled,     \* the context handed to Execute is cancelled
    cmd,              \* the running CLI command: "none", "queue" or "epic"
    cmdPc,            \* position of the command's loop over its stories
    batch,            \* the command's story keys, in order
    batchPos,         \* number of stories the loop has finished
    cmdExit,          \* exit code of the command once cmdPc = "done"
    batchLog,         \* runner calls and status writes of the command
    routerCalls,      \* calls of the router's functions, with their results
    file,             \* sprint-status.yaml as Writer.UpdateStatus sees it
    tmp,              \* sprint-status.yaml.tmp
    wpc,              \* per writer: position of its UpdateStatus call
    wcall,            \* per writer: arguments, document and result of the call
    stateCorrupt,     \* .bmad-state.json holds bytes that are not a State
    stateResult,       \* the last Manager call and what it returned
    runner            \* workflow.Runner: the call in progress and its calls of Claude

vars == << store, stateFile, progressCallback, pc, storyKey, currentStatus,
           steps, totalSteps, i, err, runnerCalls, exitCodes, writerCalls,
           writeResults, callbackCalls, trace, runs, getSteps, commits,
           initStore, ctxCancelled, cmd, cmdPc, batch, batchPos, cmdExit,
           batchLog, routerCalls, file, tmp, wpc, wcall, stateCorrupt,
           stateResult, runner >>

\* The files and position of status.Writer.
writerVars == << file, tmp, wpc, wcall >>

\* What the packages around the executor keep: router, status.Writer,
\* state.Manager and workflow.Runner.
packageVars == << routerCalls, writerVars, stateCorrupt, stateResult, runner >>

\* What no step of Execute changes.
callerVars == << getSteps, initStore, ctxCancelled, cmd, batch, batchPos, cmdExit >>

runVars == << storyKey, currentStatus, steps, totalSteps, i, err, runnerCalls,
              exitCodes, writerCalls, writeResults, callbackCalls, trace >>

Event(op, step) == [op |-> op, step |-> step]

Idle == pc \in {"idle", "returned"}

\* state.State records a caller hands to Manager.Save
States ==
    { [StoryKey |-> k, StepIndex |-> n, TotalSteps |-> Len(GetLifecycle(s).steps),
       StartStatus |-> s] :
         k \in StoryKeys, n \in {1}, s \in {StatusBacklog} }

\* No GetSteps call yet.
NoSteps ==
    [storyKey |-> "", currentStatus |-> "", steps |-> << >>,
     err |-> NoError, reads |-> << >>]

\* Who may call Execute(key) now: any caller while the invocation budget
\* lasts, or the running command's loop for its next story.
CallerReady(key) ==
    IF cmdPc = "none"
    THEN runs < MaxRuns
    ELSE cmdPc = "loop" /\ key = batch[batchPos + 1]

\* Who may call GetSteps(key) now: any caller while the invocation budget
\* lasts, or the dry-run loop for its next story.
PreviewReady(key) ==
    IF cmdPc = "none"
    THEN runs < MaxRuns
    ELSE cmdPc = "dry" /\ key = batch[batchPos + 1]

\* An entry of batchLog: the position in the list, the story, what was done
\* and for which workflow.
LogEntry(pos, key, op, workflow) ==
    [pos |-> pos, key |-> key, op |-> op, workflow |-> workflow]

\* batchLog after the current step of the current story did op; only a
\* running command keeps the log.
Logged(op) ==
    IF cmdPc = "none"
    THEN batchLog
    ELSE Append(batchLog,
                LogEntry(batchPos + 1, storyKey, op, steps[i + 1].Workflow))

\* The content of a file by kind: "absent"; "partial", what a write that
\* failed partway leaves; "malformed", bytes yaml.Unmarshal rejects;
\* "nostatus", a document without development_status; "yaml", a document
\* whose development_status holds the entries in their order.
FileContent(kind, entries) == [kind |-> kind, entries |-> entries]

NoFile == FileContent("absent", << >>)

YamlFile(entries) == FileContent("yaml", entries)

MalformedFile == FileContent("malformed", << >>)

PartialFile == FileContent("partial", << >>)

\* A yaml document that lacks the development_status mapping.
NoStatusFile == FileContent("nostatus", << >>)

\* One line of development_status.
Entry(key, s) == [key |-> key, status |-> s]

\* The processes that call Writer.UpdateStatus.
Writers == {"w1"}

\* A writer that has not been called.  cause is the operation named by the
\* os error that the returned error wraps.
NoCall ==
    [n |-> 0, storyKey |-> "", newStatus |-> "", before |-> NoFile,
     doc |-> << >>, err |-> NoError, cause |-> ""]

\* state.ErrNoState.
ErrNoState == Err("no state file exists", "", 0)

\* No Manager call yet.
NoResult == [op |-> "none", state |-> {}, err |-> NoError, exists |-> FALSE]

\* What a Manager call returned.
Result(op, state, e, exists) ==
    [op |-> op, state |-> state, err |-> e, exists |-> exists]

InitRouter == routerCalls = << >>

InitWriter ==
    /\ file = NoFile
    /\ tmp = NoFile
    /\ wpc = [w \in Writers |-> "idle"]
    /\ wcall = [w \in Writers |-> NoCall]

InitManager ==
    /\ stateCorrupt = FALSE
    /\ stateResult = NoResult

\* The names a configuration gives its workflows.
StepNames == {"create-story", "dev-story", "code-review"}

\* config.GetFullCycleSteps: the configured full_cycle.steps.
FullCycleSteps == UNION { [1..n -> StepNames] : n \in 0..MaxSteps }

\* Step{Name, Prompt}
Step(name) == [Name |-> name, Prompt |-> name]

\* No call of the Runner yet.
NoRun ==
    [pc |-> "idle", fn |-> "", stepNames |-> << >>, steps |-> << >>, i |-> 0,
     prompts |-> << >>, claude |-> << >>, ret |-> 0]

InitRunner == runner = NoRun

\* The packages around the executor at rest.
InitPackages == InitRouter /\ InitWriter /\ InitManager /\ InitRunner

InitExecutor ==
    /\ store \in [StoryKeys -> Statuses]
    /\ initStore = store
    /\ getSteps = NoSteps
    /\ commits = [k \in StoryKeys |-> 0]
    /\ ctxCancelled = FALSE
    /\ batchPos = 0
    /\ cmdExit = 0
    /\ batchLog = << >>
    /\ stateFile = {}
    /\ progressCallback = FALSE
    /\ pc = "idle"
    /\ storyKey = ""
    /\ currentStatus = ""
    /\ steps = << >>
    /\ totalSteps = 0
    /\ i = 0
    /\ err = NoError
    /\ runnerCalls = << >>
    /\ exitCodes = << >>
    /\ writerCalls = << >>
    /\ writeResults = << >>
    /\ callbackCalls = << >>
    /\ trace = << >>
    /\ runs = 0

Init ==
    /\ InitExecutor
    /\ InitPackages
    /\ cmd = "none"
    /\ cmdPc = "none"
    /\ batch = << >>

\* ------------------------------------------------------------- lifecycle.Executor
SetProgressCallback(cb) ==
    /\ Idle
    /\ progressCallback # cb
    /\ progressCallback' = cb
    /\ UNCHANGED << store, stateFile, pc, runVars, runs, callerVars, commits, cmdPc, batchLog, packageVars >>

\* Mutant: the error of GetLifecycle is dropped and the empty loop returns nil.
ExecuteStart_IgnoresLifecycleErr(key, readOk) ==
    /\ Idle
    /\ CallerReady(key)
    /\ runs' = runs + 1
    /\ cmdPc' = IF cmdPc = "loop" THEN "exec" ELSE cmdPc
    /\ storyKey' = key
    /\ LET rd == GetStoryStatus(store, key, readOk)
           lc == GetLifecycle(rd.status)
       IN /\ currentStatus' = rd.status
          /\ IF rd.err # NoError
             THEN /\ steps' = << >>
                  /\ err' = rd.err
                  /\ pc' = "returned"
             ELSE /\ steps' = lc.steps
                  /\ err' = NoError
                  /\ pc' = IF Len(lc.steps) = 0 THEN "returned" ELSE "progress"
          /\ totalSteps' = IF rd.err = NoError THEN Len(lc.steps) ELSE 0
    /\ i' = 0
    /\ runnerCalls' = << >>
    /\ exitCodes' = << >>
    /\ writerCalls' = << >>
    /\ writeResults' = << >>
    /\ callbackCalls' = << >>
    /\ trace' = << Event("read", 0) >>
    /\ UNCHANGED << store, stateFile, progressCallback, callerVars, commits,
                    batchLog, packageVars >>

\* Execute, lines 96-110: status lookup, GetLifecycle, totalSteps.
ExecuteStart(key, readOk) ==
    /\ Idle
    /\ CallerReady(key)
    /\ runs' = runs + 1
    /\ cmdPc' = IF cmdPc = "loop" THEN "exec" ELSE cmdPc
    /\ storyKey' = key
    /\ LET rd == GetStoryStatus(store, key, readOk)
           lc == GetLifecycle(rd.status)
       IN /\ currentStatus' = rd.status
          /\ IF rd.err # NoError
             THEN /\ steps' = << >>
                  /\ err' = rd.err
                  /\ pc' = "returned"
             ELSE /\ steps' = lc.steps
                  /\ err' = lc.err
                  /\ pc' = IF lc.err # NoError \/ Len(lc.steps) = 0
                           THEN "returned" ELSE "progress"
          /\ totalSteps' = IF rd.err = NoError /\ lc.err = NoError
                           THEN Len(lc.steps) ELSE 0
    /\ i' = 0
    /\ runnerCalls' = << >>
    /\ exitCodes' = << >>
    /\ writerCalls' = << >>
    /\ writeResults' = << >>
    /\ callbackCalls' = << >>
    /\ trace' = << Event("read", 0) >>
    /\ UNCHANGED << store, stateFile, progressCallback, callerVars, commits,
                    batchLog, packageVars >>

\* Mutant: the callback receives the 0-based loop index.
CallProgress_ZeroBased ==
    /\ pc = "progress"
    /\ pc' = "run"
    /\ IF progressCallback
       THEN /\ callbackCalls' = Append(callbackCalls,
                  [stepIndex |-> i, totalSteps |-> totalSteps,
                   workflow |-> steps[i + 1].Workflow])
            /\ trace' = Append(trace, Event("progress", i + 1))
       ELSE UNCHANGED << callbackCalls, trace, packageVars >>
    /\ UNCHANGED << store, stateFile, progressCallback, storyKey, currentStatus,
                    steps, totalSteps, i, err, runnerCalls, exitCodes,
                    writerCalls, writeResults, runs, callerVars, commits,
                    cmdPc, batchLog, packageVars >>

\* CallProgress that treats a missing callback as an error.
CallProgress_RequiresCallback ==
    /\ pc = "progress"
    /\ IF progressCallback
       THEN /\ callbackCalls' = Append(callbackCalls,
                  [stepIndex |-> i + 1, totalSteps |-> totalSteps,
                   workflow |-> steps[i + 1].Workflow])
            /\ trace' = Append(trace, Event("progress", i + 1))
            /\ pc' = "run"
            /\ err' = err
       ELSE /\ pc' = "returned"
            /\ err' = Err("progress callback not set", "", 0)
            /\ UNCHANGED << callbackCalls, trace, packageVars >>
    /\ UNCHANGED << store, stateFile, progressCallback, storyKey, currentStatus,
                    steps, totalSteps, i, runnerCalls, exitCodes,
                    writerCalls, writeResults, runs, callerVars, commits,
                    cmdPc, batchLog, packageVars >>

\* Execute, lines 114-117: the optional progress callback.
CallProgress ==
    /\ pc = "progress"
    /\ pc' = "run"
    /\ IF progressCallback
       THEN /\ callbackCalls' = Append(callbackCalls,
                  [stepIndex |-> i + 1, totalSteps |-> totalSteps,
                   workflow |-> steps[i + 1].Workflow])
            /\ trace' = Append(trace, Event("progress", i + 1))
       ELSE UNCHANGED << callbackCalls, trace, packageVars >>
    /\ UNCHANGED << store, stateFile, progressCallback, storyKey, currentStatus,
                    steps, totalSteps, i, err, runnerCalls, exitCodes,
                    writerCalls, writeResults, runs, callerVars, commits,
                    cmdPc, batchLog, packageVars >>

\* Execute, line 120: the call into the runner (which blocks).
RunSingleCall ==
    /\ pc = "run"
    /\ pc' = "running"
    /\ runnerCalls' = Append(runnerCalls,
           [WorkflowName |-> steps[i + 1].Workflow, StoryKey |-> storyKey])
    /\ trace' = Append(trace, Event("run", i + 1))
    /\ batchLog' = Logged("run")
    /\ UNCHANGED << store, stateFile, progressCallback, storyKey, currentStatus,
                    steps, totalSteps, i, err, exitCodes, writerCalls,
                    writeResults, callbackCalls, runs, callerVars, commits, cmdPc, packageVars >>

\* Mutant: the exit code is not inspected; the status update follows regardless.
RunSingleReturn_IgnoresExit(exitCode) ==
    /\ pc = "running"
    /\ exitCodes' = Append(exitCodes, exitCode)
    /\ trace' = Append(trace, Event("exit", i + 1))
    /\ batchLog' = Logged("exit")
    /\ commits' = IF exitCode = 0 /\ steps[i + 1].Workflow = "git-commit"
                  THEN [commits EXCEPT ![storyKey] = @ + 1]
                  ELSE commits
    /\ err' = err
    /\ pc' = "write"
    /\ UNCHANGED << store, stateFile, progressCallback, storyKey, currentStatus,
                    steps, totalSteps, i, runnerCalls, writerCalls,
                    writeResults, callbackCalls, runs, callerVars, cmdPc, packageVars >>

\* Mutant: only exit code 1 counts as a failure.
RunSingleReturn_OnlyCode1Fails(exitCode) ==
    /\ pc = "running"
    /\ exitCodes' = Append(exitCodes, exitCode)
    /\ trace' = Append(trace, Event("exit", i + 1))
    /\ batchLog' = Logged("exit")
    /\ commits' = IF exitCode = 0 /\ steps[i + 1].Workflow = "git-commit"
                  THEN [commits EXCEPT ![storyKey] = @ + 1]
                  ELSE commits
    /\ IF exitCode = 1
       THEN /\ err' = WorkflowFailed(steps[i + 1].Workflow, exitCode)
            /\ pc' = "returned"
       ELSE /\ err' = err
            /\ pc' = "write"
    /\ UNCHANGED << store, stateFile, progressCallback, storyKey, currentStatus,
                    steps, totalSteps, i, runnerCalls, writerCalls,
                    writeResults, callbackCalls, runs, callerVars, cmdPc, packageVars >>

\* Mutant: an exit code above 1 is taken for a crash of the runner, reported
\* as another error than the step's failure.
RunSingleReturn_HighCodeIsCrash(exitCode) ==
    /\ pc = "running"
    /\ exitCodes' = Append(exitCodes, exitCode)
    /\ trace' = Append(trace, Event("exit", i + 1))
    /\ batchLog' = Logged("exit")
    /\ commits' = IF exitCode = 0 /\ steps[i + 1].Workflow = "git-commit"
                  THEN [commits EXCEPT ![storyKey] = @ + 1]
                  ELSE commits
    /\ IF exitCode # 0
       THEN /\ err' = IF exitCode > 1
                      THEN Err("runner crashed", "", exitCode)
                      ELSE WorkflowFailed(steps[i + 1].Workflow, exitCode)
            /\ pc' = "returned"
       ELSE /\ err' = err
            /\ pc' = "write"
    /\ UNCHANGED << store, stateFile, progressCallback, storyKey, currentStatus,
                    steps, totalSteps, i, runnerCalls, writerCalls,
                    writeResults, callbackCalls, runs, callerVars, cmdPc, packageVars >>

\* Mutant: a workflow that fails is run once more before the run gives up.
RunSingleReturn_RetriesOnce(exitCode) ==
    /\ pc = "running"
    /\ exitCodes' = Append(exitCodes, exitCode)
    /\ trace' = Append(trace, Event("exit", i + 1))
    /\ batchLog' = Logged("exit")
    /\ commits' = IF exitCode = 0 /\ steps[i + 1].Workflow = "git-commit"
                  THEN [commits EXCEPT ![storyKey] = @ + 1]
                  ELSE commits
    /\ IF exitCode # 0
       THEN IF Len(runnerCalls) = Len(writerCalls) + 1
            THEN /\ err' = err
                 /\ pc' = "run"
            ELSE /\ err' = WorkflowFailed(steps[i + 1].Workflow, exitCode)
                 /\ pc' = "returned"
       ELSE /\ err' = err
            /\ pc' = "write"
    /\ UNCHANGED << store, stateFile, progressCallback, storyKey, currentStatus,
                    steps, totalSteps, i, runnerCalls, writerCalls,
                    writeResults, callbackCalls, runs, callerVars, cmdPc, packageVars >>

\* Execute, lines 120-123: the runner returns its exit code.
RunSingleReturn(exitCode) ==
    /\ pc = "running"
    /\ exitCodes' = Append(exitCodes, exitCode)
    /\ trace' = Append(trace, Event("exit", i + 1))
    /\ batchLog' = Logged("exit")
    /\ commits' = IF exitCode = 0 /\ steps[i + 1].Workflow = "git-commit"
                  THEN [commits EXCEPT ![storyKey] = @ + 1]
                  ELSE commits
    /\ IF exitCode # 0
       THEN /\ err' = WorkflowFailed(steps[i + 1].Workflow, exitCode)
            /\ pc' = "returned"
       ELSE /\ err' = err
            /\ pc' = "write"
    /\ UNCHANGED << store, stateFile, progressCallback, storyKey, currentStatus,
                    steps, totalSteps, i, runnerCalls, writerCalls,
                    writeResults, callbackCalls, runs, callerVars, cmdPc, packageVars >>

\* Mutant: the loop body returns nil after the first successful update.
UpdateStatus_NoLoop(ioOk) ==
    /\ pc = "write"
    /\ LET r == WriterUpdateStatus(store, storyKey, steps[i + 1].NextStatus, ioOk)
       IN /\ store' = r.store
          /\ writeResults' = Append(writeResults, r.err)
          /\ err' = r.err
          /\ i' = i
          /\ pc' = "returned"
    /\ writerCalls' = Append(writerCalls,
           [StoryKey |-> storyKey, NewStatus |-> steps[i + 1].NextStatus])
    /\ trace' = Append(trace, Event("write", i + 1))
    /\ batchLog' = Logged("write")
    /\ UNCHANGED << stateFile, progressCallback, storyKey, currentStatus, steps,
                    totalSteps, runnerCalls, exitCodes, callbackCalls, runs,
                    callerVars, commits, cmdPc, packageVars >>

\* Mutant: after a successful update the status is looked up again and the
\* remaining steps are derived from what the store holds now.
UpdateStatus_RereadsStatus(ioOk) ==
    /\ pc = "write"
    /\ LET r == WriterUpdateStatus(store, storyKey, steps[i + 1].NextStatus, ioOk)
           lc == GetLifecycle(r.store[storyKey])
       IN /\ store' = r.store
          /\ writeResults' = Append(writeResults, r.err)
          /\ IF r.err # NoError
             THEN /\ err' = r.err
                  /\ i' = i
                  /\ steps' = steps
                  /\ totalSteps' = totalSteps
                  /\ pc' = "returned"
             ELSE /\ err' = NoError
                  /\ i' = IF lc.err # NoError THEN i + 1 ELSE 0
                  /\ steps' = IF lc.err # NoError THEN steps ELSE lc.steps
                  /\ totalSteps' = IF lc.err # NoError THEN totalSteps
                                   ELSE Len(lc.steps)
                  /\ pc' = IF lc.err # NoError THEN "returned" ELSE "progress"
    /\ writerCalls' = Append(writerCalls,
           [StoryKey |-> storyKey, NewStatus |-> steps[i + 1].NextStatus])
    /\ trace' = Append(trace, Event("write", i + 1))
    /\ batchLog' = Logged("write")
    /\ UNCHANGED << stateFile, progressCallback, storyKey, currentStatus,
                    runnerCalls, exitCodes, callbackCalls, runs,
                    callerVars, commits, cmdPc, packageVars >>

\* Execute, lines 125-131: the status update, then the next iteration or
\* the final return.
UpdateStatus(ioOk) ==
    /\ pc = "write"
    /\ LET r == WriterUpdateStatus(store, storyKey, steps[i + 1].NextStatus, ioOk)
       IN /\ store' = r.store
          /\ writeResults' = Append(writeResults, r.err)
          /\ IF r.err # NoError
             THEN /\ err' = r.err
                  /\ i' = i
                  /\ pc' = "returned"
             ELSE /\ err' = NoError
                  /\ i' = i + 1
                  /\ pc' = IF i + 1 < totalSteps THEN "progress" ELSE "returned"
    /\ writerCalls' = Append(writerCalls,
           [StoryKey |-> storyKey, NewStatus |-> steps[i + 1].NextStatus])
    /\ trace' = Append(trace, Event("write", i + 1))
    /\ batchLog' = Logged("write")
    /\ UNCHANGED << stateFile, progressCallback, storyKey, currentStatus, steps,
                    totalSteps, runnerCalls, exitCodes, callbackCalls, runs,
                    callerVars, commits, cmdPc, packageVars >>

\* GetSteps with the lookup error dropped: the empty status goes on to the
\* lifecycle table.
GetSteps_IgnoresLookupErr(key, readOk) ==
    /\ Idle
    /\ PreviewReady(key)
    /\ cmdPc' = IF cmdPc = "dry" THEN "listed" ELSE cmdPc
    /\ runs' = runs + 1
    /\ LET rd == GetStoryStatus(store, key, readOk)
           lc == GetLifecycle(rd.status)
       IN getSteps' = [storyKey |-> key,
                       currentStatus |-> rd.status,
                       steps |-> IF lc.err # NoError THEN << >> ELSE lc.steps,
                       err |-> lc.err,
                       reads |-> << [StoryKey |-> key, ok |-> readOk] >>]
    /\ UNCHANGED << store, stateFile, progressCallback, pc, runVars, initStore,
                    ctxCancelled, cmd, batch, batchPos, cmdExit, commits,
                    batchLog, packageVars >>

\* GetSteps that also announces the first step to the progress callback.
GetSteps_CallsProgress(key, readOk) ==
    /\ Idle
    /\ PreviewReady(key)
    /\ cmdPc' = IF cmdPc = "dry" THEN "listed" ELSE cmdPc
    /\ runs' = runs + 1
    /\ LET rd == GetStoryStatus(store, key, readOk)
           lc == GetLifecycle(rd.status)
           ok == rd.err = NoError /\ lc.err = NoError
       IN /\ getSteps' = [storyKey |-> key,
                          currentStatus |-> rd.status,
                          steps |-> IF ok THEN lc.steps ELSE << >>,
                          err |-> IF rd.err # NoError THEN rd.err ELSE lc.err,
                          reads |-> << [StoryKey |-> key, ok |-> readOk] >>]
          /\ callbackCalls' =
                IF ok /\ progressCallback
                THEN Append(callbackCalls,
                            [stepIndex |-> 1, totalSteps |-> Len(lc.steps),
                             workflow |-> lc.steps[1].Workflow])
                ELSE callbackCalls
    /\ UNCHANGED << store, stateFile, progressCallback, pc, storyKey,
                    currentStatus, steps, totalSteps, i, err, runnerCalls,
                    exitCodes, writerCalls, writeResults, trace, initStore,
                    ctxCancelled, cmd, batch, batchPos, cmdExit, commits,
                    batchLog, packageVars >>

\* GetSteps with the first step of the sequence left out.
GetSteps_SkipsFirst(key, readOk) ==
    /\ Idle
    /\ PreviewReady(key)
    /\ cmdPc' = IF cmdPc = "dry" THEN "listed" ELSE cmdPc
    /\ runs' = runs + 1
    /\ LET rd == GetStoryStatus(store, key, readOk)
           lc == GetLifecycle(rd.status)
       IN getSteps' = [storyKey |-> key,
                       currentStatus |-> rd.status,
                       steps |-> IF rd.err # NoError \/ lc.err # NoError
                                 THEN << >> ELSE Tail(lc.steps),
                       err |-> IF rd.err # NoError THEN rd.err ELSE lc.err,
                       reads |-> << [StoryKey |-> key, ok |-> readOk] >>]
    /\ UNCHANGED << store, stateFile, progressCallback, pc, runVars, initStore,
                    ctxCancelled, cmd, batch, batchPos, cmdExit, commits,
                    batchLog, packageVars >>

\* GetSteps, lines 142-156: the status lookup and GetLifecycle, nothing else.
GetSteps(key, readOk) ==
    /\ Idle
    /\ PreviewReady(key)
    /\ cmdPc' = IF cmdPc = "dry" THEN "listed" ELSE cmdPc
    /\ runs' = runs + 1
    /\ LET rd == GetStoryStatus(store, key, readOk)
           lc == GetLifecycle(rd.status)
       IN getSteps' = [storyKey |-> key,
                       currentStatus |-> rd.status,
                       steps |-> IF rd.err # NoError \/ lc.err # NoError
                                 THEN << >> ELSE lc.steps,
                       err |-> IF rd.err # NoError THEN rd.err ELSE lc.err,
                       reads |-> << [StoryKey |-> key, ok |-> readOk] >>]
    /\ UNCHANGED << store, stateFile, progressCallback, pc, runVars, initStore,
                    ctxCancelled, cmd, batch, batchPos, cmdExit, commits,
                    batchLog, packageVars >>

\* The state file is there: with a record, or with bytes that are none.
FilePresent == stateFile # {} \/ stateCorrupt

\* Save writes the record over whatever the file held.
Save(state) ==
    /\ Idle
    /\ stateFile' = {state}
    /\ stateCorrupt' = FALSE
    /\ stateResult' = Result("Save", {state}, NoError, FALSE)
    /\ UNCHANGED << store, progressCallback, pc, runVars, runs, callerVars,
                    commits, cmdPc, batchLog, routerCalls, writerVars, runner >>

\* Clear that reports the error of removing a file that is not there.
Clear_FailsWhenAbsent ==
    /\ Idle
    /\ stateFile' = {}
    /\ stateCorrupt' = FALSE
    /\ stateResult' = Result("Clear", {},
                             IF FilePresent THEN NoError
                             ELSE Err("failed to remove state file", "", 0),
                             FALSE)
    /\ UNCHANGED << store, progressCallback, pc, runVars, runs, callerVars,
                    commits, cmdPc, batchLog, routerCalls, writerVars, runner >>

\* Clear removes the file; a file that is already absent is no error.
Clear ==
    /\ Idle
    /\ stateFile' = {}
    /\ stateCorrupt' = FALSE
    /\ stateResult' = Result("Clear", {}, NoError, FALSE)
    /\ UNCHANGED << store, progressCallback, pc, runVars, runs, callerVars,
                    commits, cmdPc, batchLog, routerCalls, writerVars, runner >>

Next ==
    \/ \E cb \in BOOLEAN : SetProgressCallback(cb)
    \/ \E key \in StoryKeys, readOk \in BOOLEAN : ExecuteStart(key, readOk)
    \/ CallProgress
    \/ RunSingleCall
    \/ \E exitCode \in ExitCodes : RunSingleReturn(exitCode)
    \/ \E ioOk \in BOOLEAN : UpdateStatus(ioOk)
    \/ \E key \in StoryKeys, readOk \in BOOLEAN : GetSteps(key, readOk)
    \/ \E state \in States : Save(state)
    \/ Clear

Spec == Init /\ [][Next]_vars

\* ------------------------------------------------------------ observations
\* The caller cancels the context it passed to the Execute call in progress.
\* Execute hands ctx to RunSingle (line 120) and never looks at it itself.
Cancel ==
    /\ pc \in {"progress", "run", "running", "write"}
    /\ ~ctxCancelled
    /\ ctxCancelled' = TRUE
    /\ trace' = Append(trace, Event("cancel", i))
    /\ UNCHANGED << store, stateFile, progressCallback, pc, storyKey,
                    currentStatus, steps, totalSteps, i, err, runnerCalls,
                    exitCodes, writerCalls, writeResults, callbackCalls, runs,
                    getSteps, initStore, cmd, batch, batchPos, cmdExit,
                    commits, cmdPc, batchLog, packageVars >>

\* Execute under a caller that may cancel the context.
NextCancel ==
    \/ \E cb \in BOOLEAN : SetProgressCallback(cb)
    \/ \E key \in StoryKeys, readOk \in BOOLEAN : ExecuteStart(key, readOk)
    \/ CallProgress
    \/ RunSingleCall
    \/ \E exitCode \in ExitCodes : RunSingleReturn(exitCode)
    \/ \E ioOk \in BOOLEAN : UpdateStatus(ioOk)
    \/ Cancel

SpecCancel == Init /\ [][NextCancel]_vars

\* The lists of story keys a queue command can be given (at least one
\* argument; a key may appear more than once).
QueueArgs == UNION { [1..n -> StoryKeys] : n \in 1..MaxBatch }

\* The lists GetEpicStories can return: the keys of the status file that
\* match the epic, each once.
EpicStories == { l \in QueueArgs : \A a, b \in 1..Len(l) : l[a] = l[b] => a = b }

\* A command starts on a fresh executor (NewExecutor) with nothing done yet.
InitBatch ==
    /\ InitExecutor
    /\ InitPackages
    /\ cmd \in {"queue", "epic"}
    /\ cmdPc = "start"
    /\ batch = << >>

\* queue <story-key>...: the executor is created and the loop, or the dry
\* run, is entered.
QueueStart(args, dryRun) ==
    /\ cmd = "queue" /\ cmdPc = "start"
    /\ batch' = args
    /\ cmdPc' = IF dryRun THEN "dry" ELSE "loop"
    /\ UNCHANGED << store, stateFile, progressCallback, pc, runVars, runs,
                    getSteps, commits, initStore, ctxCancelled, cmd, batchPos,
                    cmdExit, batchLog, packageVars >>

\* Mutant: the error of GetEpicStories is dropped; the loop runs over the nil
\* list it came with and the command reports success.
EpicStart_IgnoresLookupError(found, storyKeys) ==
    /\ cmd = "epic" /\ cmdPc = "start"
    /\ IF found
       THEN /\ batch' = storyKeys
            /\ cmdPc' = "loop"
            /\ cmdExit' = cmdExit
       ELSE /\ batch' = batch
            /\ cmdPc' = "done"
            /\ cmdExit' = cmdExit
    /\ UNCHANGED << store, stateFile, progressCallback, pc, runVars, runs,
                    getSteps, commits, initStore, ctxCancelled, cmd, batchPos,
                    batchLog, packageVars >>

\* epic <epic-id>: GetEpicStories either fails, and the command exits with
\* code 1, or yields the list the loop runs over.
EpicStart(found, storyKeys) ==
    /\ cmd = "epic" /\ cmdPc = "start"
    /\ IF found
       THEN /\ batch' = storyKeys
            /\ cmdPc' = "loop"
            /\ cmdExit' = cmdExit
       ELSE /\ batch' = batch
            /\ cmdPc' = "done"
            /\ cmdExit' = 1
    /\ UNCHANGED << store, stateFile, progressCallback, pc, runVars, runs,
                    getSteps, commits, initStore, ctxCancelled, cmd, batchPos,
                    batchLog, packageVars >>

\* The loop goes on after a failed story.
BatchNext_ContinuesAfterFailure ==
    /\ cmdPc = "exec" /\ pc = "returned"
    /\ batchPos' = batchPos + 1
    /\ cmdPc' = IF batchPos + 1 < Len(batch) THEN "loop" ELSE "done"
    /\ cmdExit' = IF err \in {NoError, ErrStoryComplete} THEN cmdExit ELSE 1
    /\ UNCHANGED << store, stateFile, progressCallback, pc, runVars, runs,
                    getSteps, commits, initStore, ctxCancelled, cmd, batch,
                    batchLog, packageVars >>

\* The loop treats a story that is already complete as a failure.
BatchNext_CompleteIsFailure ==
    /\ cmdPc = "exec" /\ pc = "returned"
    /\ IF err = NoError
       THEN /\ batchPos' = batchPos + 1
            /\ cmdPc' = IF batchPos + 1 < Len(batch) THEN "loop" ELSE "done"
            /\ cmdExit' = cmdExit
       ELSE /\ batchPos' = batchPos
            /\ cmdPc' = "done"
            /\ cmdExit' = 1
    /\ UNCHANGED << store, stateFile, progressCallback, pc, runVars, runs,
                    getSteps, commits, initStore, ctxCancelled, cmd, batch,
                    batchLog, packageVars >>

\* The loop moves on to the next story without waiting for Execute to return.
BatchNext_DoesNotWait ==
    /\ cmdPc = "exec"
    /\ IF err \in {NoError, ErrStoryComplete}
       THEN /\ batchPos' = batchPos + 1
            /\ cmdPc' = IF batchPos + 1 < Len(batch) THEN "loop" ELSE "done"
            /\ cmdExit' = cmdExit
       ELSE /\ batchPos' = batchPos
            /\ cmdPc' = "done"
            /\ cmdExit' = 1
    /\ UNCHANGED << store, stateFile, progressCallback, pc, runVars, runs,
                    getSteps, commits, initStore, ctxCancelled, cmd, batch,
                    batchLog, packageVars >>

\* The body of the commands' loop after Execute returned: nil and
\* ErrStoryComplete go on to the next story (the command returns nil after
\* the last one), any other error ends the command with exit code 1.
BatchNext ==
    /\ cmdPc = "exec" /\ pc = "returned"
    /\ IF err \in {NoError, ErrStoryComplete}
       THEN /\ batchPos' = batchPos + 1
            /\ cmdPc' = IF batchPos + 1 < Len(batch) THEN "loop" ELSE "done"
            /\ cmdExit' = cmdExit
       ELSE /\ batchPos' = batchPos
            /\ cmdPc' = "done"
            /\ cmdExit' = 1
    /\ UNCHANGED << store, stateFile, progressCallback, pc, runVars, runs,
                    getSteps, commits, initStore, ctxCancelled, cmd, batch,
                    batchLog, packageVars >>

\* The lines runQueueDryRun prints for one story: one per step.
Listing(pos, key, stepList) ==
    [j \in 1..Len(stepList) |-> LogEntry(pos, key, "list", stepList[j].Workflow)]

\* The body of runQueueDryRun's loop after GetSteps returned.
DryRunNext ==
    /\ cmdPc = "listed"
    /\ IF getSteps.err \in {NoError, ErrStoryComplete}
       THEN /\ batchPos' = batchPos + 1
            /\ cmdPc' = IF batchPos + 1 < Len(batch) THEN "dry" ELSE "done"
            /\ cmdExit' = cmdExit
            /\ batchLog' = batchLog \o
                  Listing(batchPos + 1, getSteps.storyKey, getSteps.steps)
       ELSE /\ batchPos' = batchPos
            /\ cmdPc' = "done"
            /\ cmdExit' = 1
            /\ batchLog' = batchLog
    /\ UNCHANGED << store, stateFile, progressCallback, pc, runVars, runs,
                    getSteps, commits, initStore, ctxCancelled, cmd, batch, packageVars >>

\* The queue and epic commands around the executor they create.
NextBatch ==
    \/ \E args \in QueueArgs, dryRun \in BOOLEAN : QueueStart(args, dryRun)
    \/ \E found \in BOOLEAN, storyKeys \in EpicStories : EpicStart(found, storyKeys)
    \/ \E key \in StoryKeys, readOk \in BOOLEAN : ExecuteStart(key, readOk)
    \/ CallProgress
    \/ RunSingleCall
    \/ \E exitCode \in ExitCodes : RunSingleReturn(exitCode)
    \/ \E ioOk \in BOOLEAN : UpdateStatus(ioOk)
    \/ BatchNext
    \/ \E key \in StoryKeys, readOk \in BOOLEAN : GetSteps(key, readOk)
    \/ DryRunNext

SpecBatch == InitBatch /\ [][NextBatch]_vars

\* --------------------------------------------------------------- router
\* The executor at rest on one status file; the packages are exercised on
\* their own.
InitAtRest ==
    /\ Init
    /\ store = [k \in StoryKeys |-> StatusBacklog]

\* A caller asks the router for the next workflow of a status.
CallGetWorkflow(s) ==
    /\ Len(routerCalls) < MaxCalls
    /\ routerCalls' = Append(routerCalls,
           [fn |-> "GetWorkflow", status |-> s,
            workflow |-> GetWorkflow(s).workflow, steps |-> << >>,
            err |-> GetWorkflow(s).err])
    /\ UNCHANGED << store, stateFile, progressCallback, pc, runVars, runs,
                    callerVars, commits, cmdPc, batchLog, writerVars,
                    stateCorrupt, stateResult, runner >>

\* A caller asks the router for the remaining steps of a status.
CallGetLifecycle(s) ==
    /\ Len(routerCalls) < MaxCalls
    /\ routerCalls' = Append(routerCalls,
           [fn |-> "GetLifecycle", status |-> s, workflow |-> "",
            steps |-> GetLifecycle(s).steps, err |-> GetLifecycle(s).err])
    /\ UNCHANGED << store, stateFile, progressCallback, pc, runVars, runs,
                    callerVars, commits, cmdPc, batchLog, writerVars,
                    stateCorrupt, stateResult, runner >>

NextRouter ==
    \/ \E s \in Statuses : CallGetWorkflow(s)
    \/ \E s \in Statuses : CallGetLifecycle(s)

SpecRouter == InitAtRest /\ [][NextRouter]_vars

\* -------------------------------------------------------- status.Writer
\* Statuses found in the status file when the writer is first called.
FileStatuses == {StatusBacklog, StatusReview}

\* development_status mappings over the story keys: each key at most once.
EntryLists ==
    { l \in UNION { [1..n -> { Entry(k, st) : k \in StoryKeys, st \in FileStatuses }] :
                      n \in 0..Cardinality(StoryKeys) } :
        \A a, b \in 1..Len(l) : l[a].key = l[b].key => a = b }

\* The status files UpdateStatus may find.
Files == { NoFile, MalformedFile, NoStatusFile } \cup { YamlFile(l) : l \in EntryLists }

Keys(entries) == { entries[j].key : j \in 1..Len(entries) }

\* The updated entry is taken out and put back at the end of the mapping.
UpdateNode_MovesToEnd(entries, key, newStatus) ==
    Append(SelectSeq(entries, LAMBDA e : e.key # key), Entry(key, newStatus))

\* updateStoryStatusInNode: the value of the first entry with the key is
\* replaced, everything else stays where it is.
UpdateNode(entries, key, newStatus) ==
    LET first == CHOOSE j \in 1..Len(entries) :
                    /\ entries[j].key = key
                    /\ \A h \in 1..(j - 1) : entries[h].key # key
    IN [j \in 1..Len(entries) |->
           IF j = first THEN Entry(key, newStatus) ELSE entries[j]]

\* The status a reader finds for key in a status file.
StatusIn(f, key) ==
    IF f.kind = "yaml" /\ key \in Keys(f.entries)
    THEN (CHOOSE e \in { f.entries[j] : j \in 1..Len(f.entries) } : e.key = key).status
    ELSE ""

WriterIdle(w) == wpc[w] \in {"idle", "returned"}

\* UpdateStatus that validates the new status only after the file was read
\* and the story found.
UpdateStatusRead_ValidatesLast(w, key, newStatus, readOk) ==
    /\ WriterIdle(w)
    /\ wcall[w].n < MaxWrites
    /\ LET e == IF file.kind = "absent" \/ ~readOk
                THEN Err("failed to read sprint status", "", 0)
                ELSE IF file.kind \in {"malformed", "partial"}
                THEN Err("failed to parse sprint status", "", 0)
                ELSE IF file.kind = "nostatus"
                THEN Err("development_status not found in file", "", 0)
                ELSE IF key \notin Keys(file.entries)
                THEN Err("story not found", "", 0)
                ELSE IF ~IsValid(newStatus)
                THEN Err("invalid status", "", 0)
                ELSE NoError
       IN /\ wcall' = [wcall EXCEPT ![w] =
                 [n |-> @.n + 1, storyKey |-> key, newStatus |-> newStatus,
                  before |-> file,
                  doc |-> IF e = NoError
                          THEN UpdateNode(file.entries, key, newStatus)
                          ELSE << >>,
                  err |-> e,
                  cause |-> IF e.kind = "failed to read sprint status"
                            THEN "open" ELSE ""]]
          /\ wpc' = [wpc EXCEPT ![w] = IF e = NoError THEN "write" ELSE "returned"]
    /\ UNCHANGED << store, stateFile, progressCallback, pc, runVars, runs,
                    callerVars, commits, cmdPc, batchLog, routerCalls, file,
                    tmp, stateCorrupt, stateResult, runner >>

\* UpdateStatus that adds an entry for a story the file does not have.
UpdateStatusRead_AddsMissingStory(w, key, newStatus, readOk) ==
    /\ WriterIdle(w)
    /\ wcall[w].n < MaxWrites
    /\ LET e == IF ~IsValid(newStatus)
                THEN Err("invalid status", "", 0)
                ELSE IF file.kind = "absent" \/ ~readOk
                THEN Err("failed to read sprint status", "", 0)
                ELSE IF file.kind \in {"malformed", "partial"}
                THEN Err("failed to parse sprint status", "", 0)
                ELSE IF file.kind = "nostatus"
                THEN Err("development_status not found in file", "", 0)
                ELSE NoError
       IN /\ wcall' = [wcall EXCEPT ![w] =
                 [n |-> @.n + 1, storyKey |-> key, newStatus |-> newStatus,
                  before |-> file,
                  doc |-> IF e # NoError THEN << >>
                          ELSE IF key \in Keys(file.entries)
                          THEN UpdateNode(file.entries, key, newStatus)
                          ELSE Append(file.entries, Entry(key, newStatus)),
                  err |-> e,
                  cause |-> IF e.kind = "failed to read sprint status"
                            THEN "open" ELSE ""]]
          /\ wpc' = [wpc EXCEPT ![w] = IF e = NoError THEN "write" ELSE "returned"]
    /\ UNCHANGED << store, stateFile, progressCallback, pc, runVars, runs,
                    callerVars, commits, cmdPc, batchLog, routerCalls, file,
                    tmp, stateCorrupt, stateResult, runner >>

\* UpdateStatus up to the marshalled document: validate the new status, read
\* and parse the file, update the story's node.
UpdateStatusRead(w, key, newStatus, readOk) ==
    /\ WriterIdle(w)
    /\ wcall[w].n < MaxWrites
    /\ LET e == IF ~IsValid(newStatus)
                THEN Err("invalid status", "", 0)
                ELSE IF file.kind = "absent" \/ ~readOk
                THEN Err("failed to read sprint status", "", 0)
                ELSE IF file.kind \in {"malformed", "partial"}
                THEN Err("failed to parse sprint status", "", 0)
                ELSE IF file.kind = "nostatus"
                THEN Err("development_status not found in file", "", 0)
                ELSE IF key \notin Keys(file.entries)
                THEN Err("story not found", "", 0)
                ELSE NoError
       IN /\ wcall' = [wcall EXCEPT ![w] =
                 [n |-> @.n + 1, storyKey |-> key, newStatus |-> newStatus,
                  before |-> file,
                  doc |-> IF e = NoError
                          THEN UpdateNode(file.entries, key, newStatus)
                          ELSE << >>,
                  err |-> e,
                  cause |-> IF e.kind = "failed to read sprint status"
                            THEN "open" ELSE ""]]
          /\ wpc' = [wpc EXCEPT ![w] = IF e = NoError THEN "write" ELSE "returned"]
    /\ UNCHANGED << store, stateFile, progressCallback, pc, runVars, runs,
                    callerVars, commits, cmdPc, batchLog, routerCalls, file,
                    tmp, stateCorrupt, stateResult, runner >>

\* The new document is written straight over the status file, no temp file.
WriteTemp_InPlace(w, outcome) ==
    /\ wpc[w] = "write"
    /\ file' = CASE outcome = "ok" -> YamlFile(wcall[w].doc)
                 [] outcome = "partial" -> PartialFile
                 [] OTHER -> file
    /\ wpc' = [wpc EXCEPT ![w] = "returned"]
    /\ wcall' = [wcall EXCEPT
                    ![w].err = IF outcome = "ok" THEN NoError
                               ELSE Err("failed to write sprint status", "", 0),
                    ![w].cause = IF outcome = "ok" THEN "" ELSE "write"]
    /\ UNCHANGED << store, stateFile, progressCallback, pc, runVars, runs,
                    callerVars, commits, cmdPc, batchLog, routerCalls, tmp,
                    stateCorrupt, stateResult, runner >>

\* os.WriteFile(tmpPath, ...): the temp file is written whole, or the write
\* fails leaving it partly written, or it cannot be opened at all.
WriteTemp(w, outcome) ==
    /\ wpc[w] = "write"
    /\ tmp' = CASE outcome = "ok" -> YamlFile(wcall[w].doc)
                [] outcome = "partial" -> PartialFile
                [] OTHER -> tmp
    /\ wpc' = [wpc EXCEPT ![w] = IF outcome = "ok" THEN "rename" ELSE "returned"]
    /\ wcall' = [wcall EXCEPT
                    ![w].err = IF outcome = "ok" THEN NoError
                               ELSE Err("failed to write sprint status", "", 0),
                    ![w].cause = IF outcome = "ok" THEN "" ELSE "write"]
    /\ UNCHANGED << store, stateFile, progressCallback, pc, runVars, runs,
                    callerVars, commits, cmdPc, batchLog, routerCalls, file,
                    stateCorrupt, stateResult, runner >>

\* os.Rename(tmpPath, fullPath): the temp file replaces the status file in
\* one step, or nothing moves and the temp file is left for removal.  A temp
\* file that is no longer there cannot be renamed.
RenameTemp(w, ok) ==
    /\ wpc[w] = "rename"
    /\ IF ok /\ tmp # NoFile
       THEN /\ file' = tmp
            /\ tmp' = NoFile
            /\ wpc' = [wpc EXCEPT ![w] = "returned"]
       ELSE /\ UNCHANGED << file, tmp >>
            /\ wpc' = [wpc EXCEPT ![w] = "remove"]
    /\ UNCHANGED << store, stateFile, progressCallback, pc, runVars, runs,
                    callerVars, commits, cmdPc, batchLog, routerCalls, wcall,
                    stateCorrupt, stateResult, runner >>

\* os.Remove(tmpPath) after a failed rename, then the error is returned.
RemoveTemp(w) ==
    /\ wpc[w] = "remove"
    /\ tmp' = NoFile
    /\ wpc' = [wpc EXCEPT ![w] = "returned"]
    /\ wcall' = [wcall EXCEPT
                    ![w].err = Err("failed to write sprint status", "", 0),
                    ![w].cause = "rename"]
    /\ UNCHANGED << store, stateFile, progressCallback, pc, runVars, runs,
                    callerVars, commits, cmdPc, batchLog, routerCalls, file,
                    stateCorrupt, stateResult, runner >>

\* One writer on a status file of any kind.
InitWriterFiles ==
    /\ InitExecutor
    /\ store = [k \in StoryKeys |-> StatusBacklog]
    /\ cmd = "none" /\ cmdPc = "none" /\ batch = << >>
    /\ InitRouter /\ InitManager /\ InitRunner
    /\ file \in Files
    /\ tmp = NoFile
    /\ wpc = [w \in Writers |-> "idle"]
    /\ wcall = [w \in Writers |-> NoCall]

NextWriter ==
    \/ \E w \in Writers, key \in StoryKeys, newStatus \in Statuses, readOk \in BOOLEAN :
          UpdateStatusRead(w, key, newStatus, readOk)
    \/ \E w \in Writers, outcome \in {"ok", "partial", "none"} : WriteTemp(w, outcome)
    \/ \E w \in Writers, ok \in BOOLEAN : RenameTemp(w, ok)
    \/ \E w \in Writers : RemoveTemp(w)

SpecWriter == InitWriterFiles /\ [][NextWriter]_vars

\* --------------------------------------------------------- state.Manager
\* The State records an interrupted run can leave: any story, any start
\* status with steps, any step of its sequence.
Checkpoints ==
    { c \in [StoryKey : StoryKeys, StepIndex : 0..3, TotalSteps : 1..4,
             StartStatus : ValidStatuses \ {StatusDone}] :
        /\ c.TotalSteps = Len(GetLifecycle(c.StartStatus).steps)
        /\ c.StepIndex < c.TotalSteps }

\* Load with a missing file reported like a damaged one.
Load_MissingIsCorrupt ==
    /\ Idle
    /\ stateResult' =
          IF stateCorrupt \/ stateFile = {}
          THEN Result("Load", {}, Err("failed to parse state file", "", 0), FALSE)
          ELSE Result("Load", stateFile, NoError, FALSE)
    /\ UNCHANGED << store, stateFile, progressCallback, pc, runVars, runs,
                    callerVars, commits, cmdPc, batchLog, routerCalls,
                    writerVars, stateCorrupt, runner >>

\* Load that hands back a fixed record instead of the stored one.
Load_ReturnsDefault ==
    /\ Idle
    /\ stateResult' =
          IF stateCorrupt
          THEN Result("Load", {}, Err("failed to parse state file", "", 0), FALSE)
          ELSE IF stateFile = {}
          THEN Result("Load", {}, ErrNoState, FALSE)
          ELSE Result("Load", {CHOOSE c \in Checkpoints : c.StepIndex = 0},
                      NoError, FALSE)
    /\ UNCHANGED << store, stateFile, progressCallback, pc, runVars, runs,
                    callerVars, commits, cmdPc, batchLog, routerCalls,
                    writerVars, stateCorrupt, runner >>

\* Load: ErrNoState when the file is missing, another error when its bytes
\* are no State, else the stored record.
Load ==
    /\ Idle
    /\ stateResult' =
          IF stateCorrupt
          THEN Result("Load", {}, Err("failed to parse state file", "", 0), FALSE)
          ELSE IF stateFile = {}
          THEN Result("Load", {}, ErrNoState, FALSE)
          ELSE Result("Load", stateFile, NoError, FALSE)
    /\ UNCHANGED << store, stateFile, progressCallback, pc, runVars, runs,
                    callerVars, commits, cmdPc, batchLog, routerCalls,
                    writerVars, stateCorrupt, runner >>

\* Exists: whether the state file is there.
Exists ==
    /\ Idle
    /\ stateResult' = Result("Exists", {}, NoError, FilePresent)
    /\ UNCHANGED << store, stateFile, progressCallback, pc, runVars, runs,
                    callerVars, commits, cmdPc, batchLog, routerCalls,
                    writerVars, stateCorrupt, runner >>

\* Something other than the Manager leaves bytes in the state file that are
\* not a State.
Damage ==
    /\ ~stateCorrupt
    /\ stateCorrupt' = TRUE
    /\ stateFile' = {}
    /\ UNCHANGED << store, progressCallback, pc, runVars, runs, callerVars,
                    commits, cmdPc, batchLog, routerCalls, writerVars,
                    stateResult, runner >>

NextManager ==
    \/ \E state \in Checkpoints : Save(state)
    \/ Clear
    \/ Load
    \/ Exists
    \/ Damage

SpecManager == InitAtRest /\ [][NextManager]_vars

LookupFailed == err.kind = "failed to read sprint status"

Returned == pc = "returned"

Workflows(calls) == [j \in 1..Len(calls) |-> calls[j].WorkflowName]

Updates(calls) == [j \in 1..Len(calls) |-> calls[j].NewStatus]

AllSucceeded ==
    /\ \A j \in 1..Len(exitCodes) : exitCodes[j] = 0
    /\ \A j \in 1..Len(writeResults) : writeResults[j] = NoError

\* The published sequences (command help text and TestExecute).
PublishedWorkflows(s) ==
    CASE s = "backlog" -> << "create-story", "dev-story", "code-review", "git-commit" >>
      [] s \in {"ready-for-dev", "in-progress"} -> << "dev-story", "code-review", "git-commit" >>
      [] s = "review" -> << "code-review", "git-commit" >>
      [] OTHER -> << >>

PublishedUpdates(s) ==
    CASE s = "backlog" -> << "ready-for-dev", "review", "done", "done" >>
      [] s \in {"ready-for-dev", "in-progress"} -> << "review", "done", "done" >>
      [] s = "review" -> << "done", "done" >>
      [] OTHER -> << >>

StartStatuses == {"backlog", "ready-for-dev", "in-progress", "review"}

\* C1: from every starting status in {backlog, ready-for-dev, in-progress,
\* review}, when every action returns 0 and every status write succeeds, a
\* returned Execute has called the runner once per step of the published
\* sequence, in order and with its storyKey, has written the steps' resulting
\* statuses in the same order, and has returned success.
C1_ExecuteRunsWholeSequence ==
    (Returned /\ currentStatus \in StartStatuses /\ AllSucceeded) =>
        /\ Workflows(runnerCalls) = PublishedWorkflows(currentStatus)
        /\ \A j \in 1..Len(runnerCalls) : runnerCalls[j].StoryKey = storyKey
        /\ Updates(writerCalls) = PublishedUpdates(currentStatus)
        /\ \A j \in 1..Len(writerCalls) : writerCalls[j].StoryKey = storyKey
        /\ err = NoError

C1_Witness ==
    /\ Returned /\ AllSucceeded /\ err = NoError
    /\ currentStatus = "backlog"
    /\ Workflows(runnerCalls) = << "create-story", "dev-story", "code-review", "git-commit" >>
    /\ Updates(writerCalls) = << "ready-for-dev", "review", "done", "done" >>

\* C2: GetLifecycle is a function of the status alone: every derivation, in
\* every run, yields the four steps for backlog, the same three steps starting
\* at dev-story for ready-for-dev and in-progress, and the two steps for review.
C2_GetLifecycleTable ==
    (pc # "idle" /\ ~LookupFailed) =>
        /\ currentStatus = "backlog" =>
             steps = << [Workflow |-> "create-story", NextStatus |-> "ready-for-dev"],
                        [Workflow |-> "dev-story", NextStatus |-> "review"],
                        [Workflow |-> "code-review", NextStatus |-> "done"],
                        [Workflow |-> "git-commit", NextStatus |-> "done"] >>
        /\ currentStatus \in {"ready-for-dev", "in-progress"} =>
             steps = << [Workflow |-> "dev-story", NextStatus |-> "review"],
                        [Workflow |-> "code-review", NextStatus |-> "done"],
                        [Workflow |-> "git-commit", NextStatus |-> "done"] >>
        /\ currentStatus = "review" =>
             steps = << [Workflow |-> "code-review", NextStatus |-> "done"],
                        [Workflow |-> "git-commit", NextStatus |-> "done"] >>

C2_Witness ==
    /\ runs = 2 /\ pc = "progress" /\ currentStatus = "in-progress"
    /\ Len(steps) = 3 /\ steps[1].Workflow = "dev-story"

\* C3: GetLifecycle(done) yields no steps and ErrStoryComplete, GetLifecycle
\* of a value outside the five statuses (the empty string included) yields no
\* steps and ErrUnknownStatus, and the two sentinels differ from each other
\* and from success.
C3_GetLifecycleSentinels ==
    /\ (pc # "idle" /\ ~LookupFailed /\ currentStatus = "done") =>
           (steps = << >> /\ err = ErrStoryComplete)
    /\ (pc # "idle" /\ ~LookupFailed /\ currentStatus \notin ValidStatuses) =>
           (steps = << >> /\ err = ErrUnknownStatus)
    /\ ErrStoryComplete # ErrUnknownStatus
    /\ ErrStoryComplete # NoError
    /\ ErrUnknownStatus # NoError

C3_Witness ==
    /\ pc # "idle" /\ ~LookupFailed /\ currentStatus = ""
    /\ store[storyKey] = "" /\ err = ErrUnknownStatus

\* C4: fail-fast.  Once the runner has returned a non-zero exit code at step
\* k, the run has made exactly k runner calls and k-1 status writes, none of
\* them for step k, Execute has returned, and its error names the failed
\* workflow and the exit code.
C4_FailFast ==
    \A k \in 1..Len(exitCodes) :
        exitCodes[k] # 0 =>
            /\ Returned
            /\ Len(runnerCalls) = k
            /\ Len(writerCalls) = k - 1
            /\ \A j \in 1..Len(trace) : trace[j].op = "write" => trace[j].step < k
            /\ \A j \in 1..Len(trace) : trace[j].step <= k
            /\ err = Err("workflow failed", runnerCalls[k].WorkflowName, exitCodes[k])
            /\ runnerCalls[k].WorkflowName = PublishedWorkflows(currentStatus)[k]

C4_Witness ==
    /\ Returned /\ currentStatus = "backlog"
    /\ exitCodes = << 0, 2 >>
    /\ Workflows(runnerCalls) = << "create-story", "dev-story" >>
    /\ Updates(writerCalls) = << "ready-for-dev" >>
    /\ err = Err("workflow failed", "dev-story", 2)

\* C5: when the action at 0-based step index i fails, the step that returns
\* the step execution failure leaves a checkpoint recording
\* (storyKey, i, total step count, status at run start) in the state file.
C5_CheckpointOnFailure ==
    [][ (pc = "running" /\ pc' = "returned") =>
           stateFile' = { [StoryKey |-> storyKey, StepIndex |-> i,
                           TotalSteps |-> totalSteps,
                           StartStatus |-> currentStatus] } ]_vars

\* C6: the step that returns success leaves no checkpoint for the story in the
\* state file, so no checkpoint of a story survives a successful run of it.
C6_CheckpointClearedOnSuccess ==
    [][ (pc = "write" /\ pc' = "returned" /\ err' = NoError) =>
           \A c \in stateFile' : c.StoryKey # storyKey ]_vars

\* A step of Execute: it moves pc, or it starts a run that returns at once
\* with a fresh trace (GetSteps counts as an invocation too, but it leaves the
\* trace alone).
ExecuteStep == pc' # pc \/ (runs' # runs /\ trace' # trace)

ProgressCallsInOrder ==
    /\ \A j \in 1..Len(callbackCalls) :
          callbackCalls[j] = [stepIndex |-> j, totalSteps |-> totalSteps,
                              workflow |-> PublishedWorkflows(currentStatus)[j]]
    /\ totalSteps = Len(PublishedWorkflows(currentStatus))
    /\ Len(callbackCalls) = Len(runnerCalls) + (IF pc = "run" THEN 1 ELSE 0)
    /\ (Returned /\ AllSucceeded) => Len(callbackCalls) = totalSteps
    /\ \A k \in 1..Len(exitCodes) : exitCodes[k] # 0 => Len(callbackCalls) = k
    /\ \A q \in 1..Len(trace) :
          trace[q].op = "run" =>
              \E p \in 1..(q - 1) : trace[p] = Event("progress", trace[q].step)
    /\ \A p \in 1..Len(trace) :
          (trace[p].op = "progress" /\ trace[p].step > 1) =>
              \E r \in 1..(p - 1) : trace[r] = Event("write", trace[p].step - 1)

\* C7: with a progress callback registered, after every step of an Execute
\* run the callback has been called once per attempted step with
\* (1, N, workflow 1), (2, N, workflow 2), ... (N the sequence length), N
\* times when all steps succeed and k times when step k fails, each call
\* before the runner call of its step and after the status write of the
\* previous step.
C7_ProgressCallback ==
    [][ (ExecuteStep /\ progressCallback') => ProgressCallsInOrder' ]_vars

C7_Witness ==
    /\ progressCallback /\ Returned /\ currentStatus = "ready-for-dev"
    /\ exitCodes = << 0, 1 >>
    /\ callbackCalls = << [stepIndex |-> 1, totalSteps |-> 3, workflow |-> "dev-story"],
                          [stepIndex |-> 2, totalSteps |-> 3, workflow |-> "code-review"] >>

WriteEvents == SelectSeq(trace, LAMBDA e : e.op = "write")

\* C8: in every state of a run, the i-th status write was issued after the
\* i-th runner call returned 0 and before the (i+1)-th runner call started,
\* there are never more writes than successful runner returns, and each
\* written value is its step's resulting status for the run's storyKey.
C8_WriteFollowsSuccess ==
    /\ Len(WriteEvents) = Len(writerCalls)
    /\ \A j \in 1..Len(WriteEvents) : WriteEvents[j].step = j
    /\ \A p \in 1..Len(trace) :
          trace[p].op = "write" =>
              /\ \E q \in 1..(p - 1) : trace[q] = Event("exit", trace[p].step)
              /\ exitCodes[trace[p].step] = 0
              /\ \A r \in 1..Len(trace) :
                    trace[r] = Event("run", trace[p].step + 1) => r > p
    /\ Len(writerCalls) <= Cardinality({ k \in 1..Len(exitCodes) : exitCodes[k] = 0 })
    /\ \A j \in 1..Len(writerCalls) :
          writerCalls[j] = [StoryKey |-> storyKey,
                            NewStatus |-> PublishedUpdates(currentStatus)[j]]

C8_Witness ==
    /\ pc = "running" /\ currentStatus = "backlog"
    /\ Len(runnerCalls) = 3 /\ exitCodes = << 0, 0 >>
    /\ Updates(writerCalls) = << "ready-for-dev", "review" >>
    /\ store[storyKey] = "review"

\* The status the story held before step k of the run.
StatusBeforeStep(k) ==
    IF k = 1 THEN currentStatus ELSE PublishedUpdates(currentStatus)[k - 1]

\* C9: once the status write of step k has failed, Execute has returned that
\* write's error, the failed write is the last collaborator call of the run
\* (no later callback or runner call, no second write for the step), and the
\* stored status is still the one from before step k.
C9_WriteFailureHalts ==
    \A k \in 1..Len(writeResults) :
        writeResults[k] # NoError =>
            /\ Returned
            /\ err = writeResults[k]
            /\ Len(writerCalls) = k
            /\ Len(runnerCalls) = k
            /\ Len(callbackCalls) <= k
            /\ trace[Len(trace)] = Event("write", k)
            /\ \A p \in 1..(Len(trace) - 1) : trace[p] # Event("write", k)
            /\ store[storyKey] = StatusBeforeStep(k)

C9_Witness ==
    /\ Returned /\ currentStatus = "backlog"
    /\ writeResults = << NoError, Err("failed to write sprint status", "", 0) >>
    /\ err = Err("failed to write sprint status", "", 0)
    /\ Workflows(runnerCalls) = << "create-story", "dev-story" >>
    /\ store[storyKey] = "ready-for-dev"

\* C10: a returned Execute that read the status done has returned
\* ErrStoryComplete, one that read a status outside the enumeration has
\* returned ErrUnknownStatus, and in both cases the run made no runner call,
\* no status write and no progress callback.
C10_SentinelRunsNothing ==
    (Returned /\ ~LookupFailed /\ currentStatus \notin StartStatuses) =>
        /\ err = (IF currentStatus = "done" THEN ErrStoryComplete ELSE ErrUnknownStatus)
        /\ err # NoError
        /\ runnerCalls = << >>
        /\ writerCalls = << >>
        /\ callbackCalls = << >>
        /\ trace = << Event("read", 0) >>
        /\ store[storyKey] = currentStatus

C10_Witness ==
    /\ progressCallback /\ Returned /\ ~LookupFailed
    /\ store[storyKey] = "done" /\ currentStatus = "done"
    /\ err = ErrStoryComplete /\ runnerCalls = << >>

\* A call of GetSteps, seen by its result: no other operation assigns it.
GetStepsStep == getSteps' # getSteps

\* The error the status reader hands back when the lookup fails.
LookupError(key) == GetStoryStatus(store, key, FALSE).err

\* C11: when the status lookup fails, Execute and GetSteps return the
\* reader's error as it is and make no runner call, no status write and no
\* progress callback; GetSteps returns a nil sequence.
C11_LookupFailurePropagates ==
    [][ /\ (ExecuteStep /\ Returned' /\ LookupFailed') =>
              /\ err' = LookupError(storyKey')
              /\ runnerCalls' = << >> /\ writerCalls' = << >>
              /\ callbackCalls' = << >>
              /\ trace' = << Event("read", 0) >>
              /\ store' = store
        /\ (GetStepsStep /\ ~getSteps'.reads[1].ok) =>
              /\ getSteps'.err = LookupError(getSteps'.storyKey)
              /\ getSteps'.steps = << >>
              /\ UNCHANGED << store, runnerCalls, writerCalls, callbackCalls >>
      ]_vars

C11_Witness ==
    /\ Returned /\ LookupFailed /\ progressCallback
    /\ store[storyKey] = "backlog"
    /\ getSteps.reads # << >> /\ ~getSteps.reads[1].ok
    /\ getSteps.storyKey = storyKey
    /\ getSteps.err = err /\ getSteps.steps = << >>

\* C12: GetSteps never invokes the runner, never writes status, never writes a
\* checkpoint and never calls the progress callback, whatever the stored
\* status and the lookup outcome; it calls the status reader, once, and
\* nothing else.
C12_GetStepsIsReadOnly ==
    [][ GetStepsStep =>
            /\ UNCHANGED << store, stateFile, progressCallback, pc, runVars,
                            commits >>
            /\ Len(getSteps'.reads) = 1
            /\ getSteps'.reads[1].StoryKey = getSteps'.storyKey
      ]_vars

C12_Witness ==
    /\ progressCallback /\ pc = "idle" /\ runs = 2
    /\ getSteps.currentStatus = "backlog" /\ Len(getSteps.steps) = 4
    /\ Len(getSteps.reads) = 1
    /\ runnerCalls = << >> /\ writerCalls = << >> /\ callbackCalls = << >>
    /\ stateFile = {} /\ store = initStore

\* GetSteps and the current Execute run looked at the same stored status with
\* the same lookup outcome.
SameStoredStatus ==
    /\ getSteps.reads # << >>
    /\ pc # "idle"
    /\ getSteps.currentStatus = currentStatus
    /\ getSteps.reads[1].ok = ~LookupFailed

\* C13: for every stored status GetSteps returns exactly the sequence Execute
\* consumes for that stored status (the same steps in the same order when all
\* actions succeed), and the same sentinel or lookup error that Execute
\* returns before running anything.
C13_GetStepsMatchesExecute ==
    SameStoredStatus =>
        /\ getSteps.steps = steps
        /\ getSteps.err # NoError =>
              /\ Returned /\ err = getSteps.err
              /\ runnerCalls = << >> /\ writerCalls = << >>
        /\ (getSteps.err = NoError /\ Returned /\ AllSucceeded) =>
              /\ Workflows(runnerCalls) =
                    [j \in 1..Len(getSteps.steps) |-> getSteps.steps[j].Workflow]
              /\ Updates(writerCalls) =
                    [j \in 1..Len(getSteps.steps) |-> getSteps.steps[j].NextStatus]
              /\ err = NoError

C13_Witness ==
    /\ SameStoredStatus /\ Returned /\ AllSucceeded
    /\ currentStatus = "ready-for-dev"
    /\ getSteps.storyKey = storyKey
    /\ Len(getSteps.steps) = 3 /\ Len(runnerCalls) = 3 /\ Len(writerCalls) = 3

\* What a run that started from status s returns, given only what its
\* collaborators answered: the runner's exit codes and the writer's results.
ResultOf(s, codes, results) ==
    IF codes # << >> /\ codes[Len(codes)] # 0
    THEN WorkflowFailed(PublishedWorkflows(s)[Len(codes)], codes[Len(codes)])
    ELSE IF results # << >> /\ results[Len(results)] # NoError
         THEN results[Len(results)]
         ELSE NoError

\* C14: a missing progress callback does not alter control flow.  The runner
\* calls, the status writes and the result of a run are fixed by the stored
\* status and the collaborators' outcomes alone, so a run without a callback
\* and a run with one, given the same status and outcomes, make the same calls
\* and return the same result; no error is raised for the missing callback.
C14_CallbackDoesNotAlterControlFlow ==
    (Returned /\ ~LookupFailed /\ currentStatus \in StartStatuses) =>
        /\ Workflows(runnerCalls) =
              SubSeq(PublishedWorkflows(currentStatus), 1, Len(exitCodes))
        /\ \A j \in 1..Len(runnerCalls) : runnerCalls[j].StoryKey = storyKey
        /\ Updates(writerCalls) =
              SubSeq(PublishedUpdates(currentStatus), 1, Len(writeResults))
        /\ \A j \in 1..Len(writerCalls) : writerCalls[j].StoryKey = storyKey
        /\ Len(writeResults) = Cardinality({j \in 1..Len(exitCodes) : exitCodes[j] = 0})
        /\ err = ResultOf(currentStatus, exitCodes, writeResults)
        /\ Len(callbackCalls) \in {0, Len(runnerCalls)}

C14_Witness ==
    /\ Returned /\ currentStatus = "backlog" /\ ~progressCallback
    /\ callbackCalls = << >>
    /\ Len(runnerCalls) = 4 /\ Len(writerCalls) = 4 /\ err = NoError

\* The step on which Execute is called: the run counter moves and the trace
\* starts again with the status lookup.
ExecuteStartStep ==
    /\ runs' # runs
    /\ trace' = << Event("read", 0) >>
    /\ (pc' # pc \/ trace' # trace)

\* C15: after a run on a subject halted because the action at step k failed,
\* the next Execute on the same subject derives, from the persisted status,
\* exactly the steps from the failed step k onward: no completed step again,
\* the failed step not skipped, for every k and every starting status.
C15_ResumeFromFailedStep ==
    [][ ( /\ Returned /\ err.kind = "workflow failed"
          /\ ExecuteStartStep
          /\ storyKey' = storyKey
          /\ ~LookupFailed' ) =>
            /\ err' = NoError
            /\ [j \in 1..Len(steps') |-> steps'[j].Workflow] =
                  SubSeq(PublishedWorkflows(currentStatus), Len(runnerCalls),
                         Len(PublishedWorkflows(currentStatus)))
      ]_vars

\* C16: git-commit runs successfully exactly once per subject: whenever a
\* subject that started in a non-complete status is reported complete (Execute
\* returns nil or ErrStoryComplete), git-commit has returned success exactly
\* once for it.
C16_FinalizeExactlyOnce ==
    ( /\ Returned
      /\ err \in {NoError, ErrStoryComplete}
      /\ initStore[storyKey] \in StartStatuses ) =>
        commits[storyKey] = 1

\* C17: if the context is cancelled after one step has finished (its status
\* write returned) and before the next step starts, Execute stops there: no
\* further runner call and no further status write.
C17_CancelBetweenStepsStops ==
    \A j \in 2..Len(trace) :
        (trace[j].op = "cancel" /\ trace[j - 1].op = "write") =>
            \A k \in (j + 1)..Len(trace) : trace[k].op \notin {"run", "write"}

\* The command's loop over Execute has ended (not the dry run, and not an
\* epic whose story lookup failed).
BatchEnded == cmdPc = "done" /\ pc = "returned"

\* Execute's result is one the loop stops at.
StopsBatch == err \notin {NoError, ErrStoryComplete}

\* What the runner and the writer were asked to do for the story at position p.
LogAt(p) == SelectSeq(batchLog, LAMBDA e : e.pos = p)

\* C18: a batch (queue or epic) stops at the first subject whose Execute
\* returns an error other than ErrStoryComplete (action failure, write
\* failure, lookup failure, unknown status): the command returns exit code 1
\* and no runner call or status write is made for any later subject.
C18_BatchStopsAtFirstFailure ==
    /\ cmdExit = 1 => cmdPc = "done"
    /\ BatchEnded => (cmdExit = 1 <=> StopsBatch)
    /\ (BatchEnded /\ cmdExit = 1) =>
          /\ batchPos < Len(batch)
          /\ storyKey = batch[batchPos + 1]
          /\ runs = batchPos + 1
          /\ \A p \in (batchPos + 2)..Len(batch) : LogAt(p) = << >>
          /\ \A j \in 1..Len(batchLog) : batchLog[j].pos <= batchPos + 1
          /\ \A key \in StoryKeys : ~CallerReady(key)

C18_Witness ==
    /\ BatchEnded /\ cmdExit = 1 /\ cmd = "epic"
    /\ Len(batch) = 2 /\ batchPos = 0
    /\ err.kind = "workflow failed" /\ Len(runnerCalls) = 2
    /\ store[batch[2]] = "backlog"
    /\ LogAt(1) # << >> /\ LogAt(2) = << >>

\* Every subject of the list was already done when the command started.
AllDone == batch # << >> /\ \A p \in 1..Len(batch) : initStore[batch[p]] = "done"

\* C19: in a batch a subject whose status is already done is skipped without
\* error: nothing runs and nothing is written for it, the loop goes on with
\* the next subject, and a batch of done subjects only returns success with
\* no runner call and no status write.
C19_DoneSubjectsAreSkipped ==
    [][ /\ \A p \in 1..Len(batch') :
              initStore'[batch'[p]] = "done" => LogAt(p)' = << >>
        /\ (cmdPc = "exec" /\ Returned /\ err = ErrStoryComplete /\ cmdPc' # cmdPc) =>
              /\ batchPos' = batchPos + 1
              /\ cmdExit' = 0
              /\ cmdPc' = IF batchPos' < Len(batch) THEN "loop" ELSE "done"
        /\ (AllDone' /\ BatchEnded') =>
              /\ batchLog' = << >>
              /\ cmdExit' = 0 \/ LookupFailed'
              /\ cmdExit' = 0 => batchPos' = Len(batch')
      ]_vars

C19_Witness ==
    /\ BatchEnded /\ cmdExit = 0 /\ cmd = "queue"
    /\ Len(batch) = 2 /\ batchPos = 2
    /\ initStore[batch[1]] = "done" /\ initStore[batch[2]] = "review"
    /\ LogAt(1) = << >> /\ Len(LogAt(2)) = 6
    /\ store[batch[2]] = "done"

\* C20: a batch runs its subjects strictly one after another in list order:
\* every runner call and status write for a subject comes after all those of
\* the subject before it, a story has returned before the next one starts,
\* and no two actions are in flight at the same time.
C20_BatchIsSequential ==
    /\ \A a, b \in 1..Len(batchLog) : a < b => batchLog[a].pos <= batchLog[b].pos
    /\ \A a \in 1..Len(batchLog) :
          /\ batchLog[a].pos \in 1..Len(batch)
          /\ batchLog[a].key = batch[batchLog[a].pos]
          /\ batchLog[a].op = "run" =>
                IF a = Len(batchLog)
                THEN pc = "running"
                ELSE batchLog[a + 1] =
                        [batchLog[a] EXCEPT !.op = "exit"]
    /\ pc = "running" =>
          batchLog # << >> /\ batchLog[Len(batchLog)].op = "run"
    /\ cmdPc = "loop" => Idle
    /\ cmdPc \in {"loop", "exec"} =>
          \A a \in 1..Len(batchLog) :
              batchLog[a].pos <= batchPos + 1
    /\ cmdPc = "loop" =>
          \A a \in 1..Len(batchLog) : batchLog[a].pos <= batchPos

C20_Witness ==
    /\ cmdPc = "exec" /\ pc = "running" /\ batchPos = 1
    /\ Len(batch) = 2 /\ batch[1] # batch[2]
    /\ Len(LogAt(1)) = 12 /\ Len(LogAt(2)) = 1

\* The workflow the router's table gives for a status that has one.
NextWorkflow(s) ==
    CASE s = "backlog" -> "create-story"
      [] s = "ready-for-dev" -> "dev-story"
      [] s = "in-progress" -> "dev-story"
      [] s = "review" -> "code-review"
      [] OTHER -> ""

\* C21: GetWorkflow maps backlog to create-story, ready-for-dev and
\* in-progress to dev-story and review to code-review, each with a nil error;
\* done gives the empty workflow with ErrStoryComplete and any other value,
\* the empty string included, the empty workflow with ErrUnknownStatus.
C21_GetWorkflowTable ==
    \A j \in 1..Len(routerCalls) :
        routerCalls[j].fn = "GetWorkflow" =>
            /\ routerCalls[j].workflow = NextWorkflow(routerCalls[j].status)
            /\ routerCalls[j].err =
                  IF routerCalls[j].status \in StartStatuses THEN NoError
                  ELSE IF routerCalls[j].status = "done" THEN ErrStoryComplete
                  ELSE ErrUnknownStatus

\* The step on which writer w is called.
UpdateStatusCalled(w) == wcall'[w].n # wcall[w].n

\* C22: Writer.UpdateStatus rejects a status outside the enumerated set before
\* it reads or writes anything: the error is "invalid status" whatever the
\* state of the status file, and the status file and the temp file are left
\* exactly as they were.
C22_InvalidStatusRejectedFirst ==
    [][ \A w \in Writers :
          (UpdateStatusCalled(w) /\ ~IsValid(wcall'[w].newStatus)) =>
              /\ wcall'[w].err = Err("invalid status", "", 0)
              /\ wpc'[w] = "returned"
              /\ file' = file
              /\ tmp' = tmp
      ]_vars

C22_Witness ==
    \E w \in Writers :
        /\ wpc[w] = "returned"
        /\ wcall[w].newStatus = "invalid"
        /\ wcall[w].err.kind = "invalid status"
        /\ file = NoFile /\ tmp = NoFile

KeyOrder(f) == [j \in 1..Len(f.entries) |-> f.entries[j].key]

\* C24: a successful Writer.UpdateStatus(storyKey, s) changes that story's
\* status only: a following read of storyKey gives s, every other story keeps
\* its status, and the set and order of the story keys are unchanged.
C24_UpdateChangesOneStory ==
    \A w \in Writers :
        (wpc[w] = "returned" /\ wcall[w].n > 0 /\ wcall[w].err = NoError) =>
            /\ file.kind = "yaml"
            /\ StatusIn(file, wcall[w].storyKey) = wcall[w].newStatus
            /\ KeyOrder(file) = KeyOrder(wcall[w].before)
            /\ \A j \in 1..Len(file.entries) :
                  file.entries[j].key # wcall[w].storyKey =>
                      file.entries[j] = wcall[w].before.entries[j]

C24_Witness ==
    \E w \in Writers :
        /\ wpc[w] = "returned" /\ wcall[w].n = 1 /\ wcall[w].err = NoError
        /\ Len(file.entries) = 2
        /\ file.entries[1] = Entry(wcall[w].storyKey, "done")
        /\ wcall[w].before.entries[1].status = "backlog"
        /\ file.entries[2].status = "review"

\* C25: Writer.UpdateStatus for a story key the status file does not hold
\* returns "story not found", adds no entry and leaves the file unchanged; with
\* the status file missing it returns "failed to read sprint status" and
\* creates no file.
C25_MissingStoryOrFile ==
    [][ \A w \in Writers :
          (UpdateStatusCalled(w) /\ IsValid(wcall'[w].newStatus)) =>
              /\ (file.kind = "yaml" /\ wcall'[w].storyKey \notin Keys(file.entries)) =>
                    /\ \/ wcall'[w].err = Err("story not found", "", 0)
                       \/ wcall'[w].cause = "open"
                    /\ wpc'[w] = "returned"
                    /\ file' = file /\ tmp' = tmp
                    /\ wcall'[w].storyKey \notin Keys(file'.entries)
              /\ file = NoFile =>
                    /\ wcall'[w].err = Err("failed to read sprint status", "", 0)
                    /\ wpc'[w] = "returned"
                    /\ file' = NoFile /\ tmp' = tmp
      ]_vars

C25_Witness ==
    \E w \in Writers :
        /\ wpc[w] = "returned"
        /\ wcall[w].err = Err("story not found", "", 0)
        /\ file.kind = "yaml" /\ Len(file.entries) = 1
        /\ wcall[w].storyKey \notin Keys(file.entries)
        /\ file = wcall[w].before /\ tmp = NoFile

\* A call of the Manager's operation op: it left its result, and the step is
\* not the one that damages the file.
ManagerStep(op) == stateResult'.op = op /\ ~(stateCorrupt' /\ ~stateCorrupt)

\* The last Manager call was a Save and nothing touched the file since.
JustSaved == stateResult.op = "Save" /\ stateResult.err = NoError /\ ~stateCorrupt

\* C26: checkpoint round trip.  After Save(c) succeeds Exists() is true and
\* Load() returns a checkpoint equal to c in all four fields; a later
\* Save(c2) replaces it, so the store holds at most one record and Load()
\* returns c2.
C26_SaveLoadRoundTrip ==
    [][ /\ ManagerStep("Save") =>
              /\ stateResult'.err = NoError
              /\ stateFile' = stateResult'.state
              /\ Cardinality(stateFile') = 1
              /\ ~stateCorrupt'
        /\ (JustSaved /\ ManagerStep("Load")) =>
              /\ stateResult'.err = NoError
              /\ stateResult'.state = stateResult.state
              /\ stateFile' = stateFile
        /\ (JustSaved /\ ManagerStep("Exists")) => stateResult'.exists
        /\ Cardinality(stateFile') <= 1
      ]_vars

C26_Witness ==
    /\ stateResult.op = "Load" /\ stateResult.err = NoError
    /\ stateResult.state = stateFile
    /\ \E c \in stateFile :
          c.StepIndex = 2 /\ c.TotalSteps = 4 /\ c.StartStatus = "backlog"

\* C27: Clear is idempotent.  Clear() with no checkpoint returns success,
\* Clear() after Clear() returns success again, and after any Clear()
\* Exists() is false and Load() reports not-found.
C27_ClearIsIdempotent ==
    [][ /\ ManagerStep("Clear") =>
              /\ stateResult'.err = NoError
              /\ stateFile' = {} /\ ~stateCorrupt'
        /\ (stateResult.op = "Clear" /\ ~stateCorrupt /\ ManagerStep("Exists")) =>
              ~stateResult'.exists
        /\ (stateResult.op = "Clear" /\ ~stateCorrupt /\ ManagerStep("Load")) =>
              stateResult'.err = ErrNoState /\ stateResult'.state = {}
      ]_vars

C27_Witness ==
    /\ stateResult = Result("Clear", {}, NoError, FALSE)
    /\ stateFile = {} /\ ~stateCorrupt

\* C28: Load returns ErrNoState exactly when no checkpoint file is present,
\* and when a file is present but its content is no checkpoint it returns
\* another error: not ErrNoState, and no loaded checkpoint.
C28_LoadTellsMissingFromCorrupt ==
    [][ ManagerStep("Load") =>
          /\ stateResult'.err = ErrNoState <=> ~FilePresent
          /\ stateCorrupt =>
                /\ stateResult'.err \notin {ErrNoState, NoError}
                /\ stateResult'.state = {}
          /\ stateResult'.err = NoError => stateResult'.state = stateFile
      ]_vars

C28_Witness ==
    /\ stateResult.op = "Load" /\ stateCorrupt
    /\ stateResult.err = Err("failed to parse state file", "", 0)
    /\ stateResult.state = {}

\* The progress reports of a run from status s that got as far as step k.
ProgressUpTo(s, k) ==
    [j \in 1..k |-> [stepIndex |-> j,
                     totalSteps |-> Len(PublishedWorkflows(s)),
                     workflow |-> PublishedWorkflows(s)[j]]]

\* The run ended because the runner's last exit code was not zero.
FailedAtStep == Returned /\ exitCodes # << >> /\ exitCodes[Len(exitCodes)] # 0

\* C29: every non-zero exit code is treated alike.  What a run does when the
\* runner returns a non-zero code at step k is fixed by the starting status,
\* k and whether a callback was registered: the runner calls, the status writes, the progress
\* reports and the action named in the failure do not depend on the code's
\* value, so two runs that differ only in that value make the same calls and
\* both return a step execution failure for the same action.
C29_NonZeroCodesAlike ==
    FailedAtStep =>
        LET k == Len(exitCodes)
            s == currentStatus
        IN /\ s \in StartStatuses
           /\ Workflows(runnerCalls) = SubSeq(PublishedWorkflows(s), 1, k)
           /\ Updates(writerCalls) = SubSeq(PublishedUpdates(s), 1, k - 1)
           /\ writeResults = [j \in 1..(k - 1) |-> NoError]
           /\ callbackCalls \in {<< >>, ProgressUpTo(s, k)}
           /\ err.kind = "workflow failed"
           /\ err.workflow = PublishedWorkflows(s)[k]

C29_Witness ==
    /\ FailedAtStep /\ currentStatus = "backlog" /\ progressCallback
    /\ exitCodes = << 0, 2 >>
    /\ err = WorkflowFailed("dev-story", 2)
    /\ Len(callbackCalls) = 2 /\ Len(writerCalls) = 1

\* The epic command ended without a list of stories: GetEpicStories failed.
EpicLookupFailed == cmd = "epic" /\ cmdPc = "done" /\ batch = << >>

\* C30: when the lookup of the epic's stories fails (no story matches the
\* epic id, or the status file cannot be read) the epic command returns exit
\* code 1, executes no workflow and writes no status.
C30_EpicLookupFailure ==
    EpicLookupFailed =>
        /\ cmdExit = 1
        /\ pc = "idle" /\ runs = 0
        /\ runnerCalls = << >> /\ writerCalls = << >>
        /\ batchLog = << >>
        /\ store = initStore

C30_Witness ==
    /\ EpicLookupFailed /\ cmdExit = 1
    /\ runnerCalls = << >> /\ writerCalls = << >>
    /\ \E k \in StoryKeys : store[k] = "backlog"

\* ------------------------------------------------------- workflow.Runner
\* What runClaude returns for what ExecuteWithResult returned: an error of
\* the executor makes the exit code 1.
runClaude_KeepsCodeOnError(exitCode, execErr) == exitCode

runClaude(exitCode, execErr) == IF execErr THEN 1 ELSE exitCode

\* One call of ExecuteWithResult made through runClaude.
ClaudeCall(label, exitCode, execErr) ==
    [label |-> label, exitCode |-> exitCode, err |-> execErr,
     ret |-> runClaude(exitCode, execErr)]

RunnerUnchanged ==
    UNCHANGED << store, stateFile, progressCallback, pc, runVars, runs,
                 callerVars, commits, cmdPc, batchLog, routerCalls, writerVars,
                 stateCorrupt, stateResult >>

\* RunSingle, lines 50-58: the prompt is looked up; without one the call
\* returns 1, with one runClaude is entered.
RunSingleEnter(workflowName, promptOk) ==
    /\ runner.pc = "idle"
    /\ runner' = [runner EXCEPT !.fn = "RunSingle",
                                !.stepNames = << workflowName >>,
                                !.prompts = << [name |-> workflowName, ok |-> promptOk] >>,
                                !.steps = IF promptOk THEN << Step(workflowName) >> ELSE << >>,
                                !.pc = IF promptOk THEN "claude" ELSE "returned",
                                !.ret = IF promptOk THEN 0 ELSE 1]
    /\ RunnerUnchanged

\* RunSingle, line 58, with runClaude (134-153): what Claude's executor
\* returned becomes RunSingle's result.
RunSingleClaude(exitCode, execErr) ==
    /\ runner.pc = "claude" /\ runner.fn = "RunSingle"
    /\ LET c == ClaudeCall(runner.steps[1].Name, exitCode, execErr)
       IN runner' = [runner EXCEPT !.claude = Append(@, c),
                                   !.ret = c.ret,
                                   !.pc = "returned"]
    /\ RunnerUnchanged

\* RunFullCycle, lines 85-89: the configured step names are read.
RunFullCycleEnter(stepNames) ==
    /\ runner.pc = "idle"
    /\ runner' = [runner EXCEPT !.fn = "RunFullCycle",
                                !.stepNames = stepNames,
                                !.pc = IF stepNames = << >> THEN "loop" ELSE "build"]
    /\ RunnerUnchanged

\* RunFullCycle, lines 91-98: the prompt of the next step is built; a step
\* without a prompt ends the call with 1 before any step ran.
BuildStep(promptOk) ==
    /\ runner.pc = "build"
    /\ LET name == runner.stepNames[Len(runner.steps) + 1]
           built == Append(runner.steps, Step(name))
       IN runner' = [runner EXCEPT
              !.prompts = Append(@, [name |-> name, ok |-> promptOk]),
              !.steps = IF promptOk THEN built ELSE @,
              !.ret = IF promptOk THEN @ ELSE 1,
              !.pc = IF ~promptOk THEN "returned"
                     ELSE IF Len(built) = Len(runner.stepNames) THEN "loop"
                     ELSE "build"]
    /\ RunnerUnchanged

\* Mutant: the loop goes on after a failed step and the call returns the
\* last step's exit code.
StepDone_ContinuesAfterFailure(exitCode, execErr) ==
    /\ runner.pc = "claude" /\ runner.fn = "RunFullCycle"
    /\ LET c == ClaudeCall(runner.steps[runner.i + 1].Name, exitCode, execErr)
       IN runner' = [runner EXCEPT !.claude = Append(@, c),
                                   !.ret = c.ret,
                                   !.i = @ + 1,
                                   !.pc = "loop"]
    /\ RunnerUnchanged

\* RunFullCycle, lines 104-108 and 125-126: the next step is started, or with
\* no step left the call returns 0.
StepStart ==
    /\ runner.pc = "loop"
    /\ runner' = IF runner.i < Len(runner.steps)
                 THEN [runner EXCEPT !.pc = "claude"]
                 ELSE [runner EXCEPT !.pc = "returned", !.ret = 0]
    /\ RunnerUnchanged

\* RunFullCycle, lines 108-122, with runClaude (134-153): a step that did
\* not return 0 ends the call with its exit code.
StepDone(exitCode, execErr) ==
    /\ runner.pc = "claude" /\ runner.fn = "RunFullCycle"
    /\ LET c == ClaudeCall(runner.steps[runner.i + 1].Name, exitCode, execErr)
       IN runner' = IF c.ret # 0
                    THEN [runner EXCEPT !.claude = Append(@, c),
                                        !.ret = c.ret,
                                        !.pc = "returned"]
                    ELSE [runner EXCEPT !.claude = Append(@, c),
                                        !.i = @ + 1,
                                        !.pc = "loop"]
    /\ RunnerUnchanged

\* One call of the Runner: RunSingle or RunFullCycle.
NextRunner ==
    \/ \E workflowName \in StepNames, promptOk \in BOOLEAN :
          RunSingleEnter(workflowName, promptOk)
    \/ \E exitCode \in ExitCodes, execErr \in BOOLEAN :
          RunSingleClaude(exitCode, execErr)
    \/ \E stepNames \in FullCycleSteps : RunFullCycleEnter(stepNames)
    \/ \E promptOk \in BOOLEAN : BuildStep(promptOk)
    \/ StepStart
    \/ \E exitCode \in ExitCodes, execErr \in BOOLEAN : StepDone(exitCode, execErr)

SpecRunner == InitAtRest /\ [][NextRunner]_vars

\* The exit codes the steps of the call returned, in order.
StepCodes == [j \in 1..Len(runner.claude) |-> runner.claude[j].ret]

\* The names of the steps that ran, in order.
StepsRun == [j \in 1..Len(runner.claude) |-> runner.claude[j].label]

FullCycleReturned == runner.fn = "RunFullCycle" /\ runner.pc = "returned"

\* C31: RunFullCycle executes the configured steps in order, stops at the
\* first step whose exit code is non-zero and returns that step's exit code
\* without running a later step, and returns 0 only if every configured step
\* ran and returned 0.
C31_FullCycleStopsAtFirstFailure ==
    runner.fn = "RunFullCycle" =>
        /\ StepsRun = SubSeq(runner.stepNames, 1, Len(runner.claude))
        /\ \A j \in 1..(Len(StepCodes) - 1) : StepCodes[j] = 0
        /\ (StepCodes # << >> /\ StepCodes[Len(StepCodes)] # 0) =>
              FullCycleReturned /\ runner.ret = StepCodes[Len(StepCodes)]
        /\ (FullCycleReturned /\ runner.ret = 0) =>
              /\ Len(StepCodes) = Len(runner.stepNames)
              /\ \A j \in 1..Len(StepCodes) : StepCodes[j] = 0

C31_Witness ==
    /\ FullCycleReturned
    /\ runner.stepNames = << "create-story", "dev-story", "code-review" >>
    /\ StepsRun = << "create-story", "dev-story" >>
    /\ StepCodes = << 0, 2 >>
    /\ runner.ret = 2

RunSingleReturned == runner.fn = "RunSingle" /\ runner.pc = "returned"

\* C32: RunSingle honours the runner's signal contract.  It returns 0 only
\* if the prompt of the workflow was resolved and Claude's executor completed
\* with exit code 0 and no error; if the prompt lookup fails it returns 1
\* without invoking the executor, and if the executor returns an error it
\* returns 1 whatever exit code came with the error.
C32_RunSingleSignal ==
    RunSingleReturned =>
        /\ runner.ret = 0 =>
              /\ runner.prompts[1].ok
              /\ Len(runner.claude) = 1
              /\ runner.claude[1].exitCode = 0 /\ ~runner.claude[1].err
        /\ ~runner.prompts[1].ok => runner.ret = 1 /\ runner.claude = << >>
        /\ (runner.claude # << >> /\ runner.claude[1].err) => runner.ret = 1
        /\ (runner.claude # << >> /\ ~runner.claude[1].err) =>
              runner.ret = runner.claude[1].exitCode

C32_Witness ==
    /\ RunSingleReturned /\ runner.prompts[1].ok
    /\ runner.claude = << [label |-> "dev-story", exitCode |-> 0,
                           err |-> TRUE, ret |-> 1] >>
    /\ runner.ret = 1

\* ------------------------------------------- a status file others write too
\* Someone else rewrites the status of the story while Execute runs on it.
ExternalWrite(s) ==
    /\ ~Idle
    /\ store[storyKey] # s
    /\ store' = [store EXCEPT ![storyKey] = s]
    /\ UNCHANGED << stateFile, progressCallback, pc, runVars, runs, callerVars,
                    commits, cmdPc, batchLog, packageVars >>

\* Execute on a status file that changes under it.
NextShared ==
    \/ \E cb \in BOOLEAN : SetProgressCallback(cb)
    \/ \E key \in StoryKeys, readOk \in BOOLEAN : ExecuteStart(key, readOk)
    \/ CallProgress
    \/ RunSingleCall
    \/ \E exitCode \in ExitCodes : RunSingleReturn(exitCode)
    \/ \E ioOk \in BOOLEAN : UpdateStatus(ioOk)
    \/ \E s \in ValidStatuses : ExternalWrite(s)

SpecShared == InitAtRest /\ [][NextShared]_vars

\* The status lookups of the current run.
Reads == { j \in 1..Len(trace) : trace[j].op = "read" }

\* C33: the step sequence of a run is fixed by the single status read at its
\* start.  Execute reads the status once, no step after the first changes
\* the derived steps, and the workflows run and statuses written are the
\* published ones of the status that was read, in order, whatever the run
\* itself or anyone else writes to the stored status meanwhile.
C33_StepsFixedByFirstRead ==
    [][ /\ runs' = runs =>
              /\ steps' = steps
              /\ totalSteps' = totalSteps
              /\ currentStatus' = currentStatus
        /\ pc' # "idle" =>
              /\ Reads' = {1}
              /\ (~LookupFailed' /\ currentStatus' \in StartStatuses) =>
                    /\ [j \in 1..Len(steps') |-> steps'[j].Workflow] =
                          PublishedWorkflows(currentStatus')
                    /\ Workflows(runnerCalls') =
                          SubSeq(PublishedWorkflows(currentStatus'), 1,
                                 Len(runnerCalls'))
                    /\ Updates(writerCalls') =
                          SubSeq(PublishedUpdates(currentStatus'), 1,
                                 Len(writerCalls'))
      ]_vars

C33_Witness ==
    /\ pc = "write" /\ i = 3 /\ currentStatus = "backlog"
    /\ Workflows(runnerCalls) =
          << "create-story", "dev-story", "code-review", "git-commit" >>
    /\ Updates(writerCalls) = << "ready-for-dev", "review", "done" >>
    /\ store[storyKey] = "backlog"

\* The place of a status in the order backlog < ready-for-dev < in-progress
\* < review < done.
Rank(s) ==
    CASE s = StatusBacklog -> 0
      [] s = StatusReadyForDev -> 1
      [] s = StatusInProgress -> 2
      [] s = StatusReview -> 3
      [] s = StatusDone -> 4

\* The statuses a sequence of steps leaves the story at, in order.
NextStatuses(stepList) == [j \in 1..Len(stepList) |-> stepList[j].NextStatus]

\* UpdateStatus was called on this step.
WriteStep == Len(writerCalls') = Len(writerCalls) + 1

\* C34: the persisted status never moves backwards in the order backlog <
\* ready-for-dev < in-progress < review < done.  With only the engine
\* writing, whatever fails: a stored status changes only to a later one,
\* every status the engine writes is at or after the status stored before the
\* write, and the statuses along every derived sequence never decrease, start
\* at or after the status read, and end with done twice.
C34_StatusNeverMovesBack ==
    [][ /\ \A k \in StoryKeys :
              store'[k] # store[k] =>
                 /\ IsValid(store[k]) /\ IsValid(store'[k])
                 /\ Rank(store'[k]) > Rank(store[k])
        /\ WriteStep =>
              LET w == writerCalls'[Len(writerCalls')]
              IN /\ IsValid(store[w.StoryKey]) /\ IsValid(w.NewStatus)
                 /\ Rank(w.NewStatus) >= Rank(store[w.StoryKey])
        /\ steps' # << >> =>
              LET n == NextStatuses(steps')
              IN /\ Rank(n[1]) >= Rank(currentStatus')
                 /\ \A j \in 1..(Len(n) - 1) : Rank(n[j]) <= Rank(n[j + 1])
                 /\ Len(n) >= 2
                 /\ n[Len(n) - 1] = StatusDone /\ n[Len(n)] = StatusDone
      ]_vars

C34_Witness ==
    /\ Returned /\ err = NoError /\ currentStatus = "in-progress"
    /\ Updates(writerCalls) = << "review", "done", "done" >>
    /\ store[storyKey] = "done" /\ initStore[storyKey] = "in-progress"
    /\ runs = 2

\* Execute returned nil.
Succeeded == Returned /\ err = NoError

\* What a run that returned nil has done: every derived step ran with exit
\* code 0 and had its status written, the last write being done.
AllStepsDone ==
    /\ steps # << >>
    /\ exitCodes = [j \in 1..Len(steps) |-> 0]
    /\ writeResults = [j \in 1..Len(steps) |-> NoError]
    /\ Updates(writerCalls) = NextStatuses(steps)
    /\ \A j \in 1..Len(writerCalls) : writerCalls[j].StoryKey = storyKey
    /\ writerCalls[Len(writerCalls)].NewStatus = StatusDone
    /\ store[storyKey] = StatusDone

\* C35 as stated: Execute returns success only if every step of the derived
\* sequence had its action return 0 and its status write succeed in this run;
\* whenever it returns success the last status written is done, and a
\* following Execute or GetSteps on the same subject returns the
\* AlreadyComplete sentinel.
C35_SuccessMeansDone ==
    [][ /\ Succeeded' => AllStepsDone'
        /\ (Succeeded /\ ExecuteStartStep /\ storyKey' = storyKey) =>
              err' = ErrStoryComplete
        /\ (Succeeded /\ GetStepsStep /\ getSteps'.storyKey = storyKey) =>
              getSteps'.err = ErrStoryComplete
      ]_vars

\* C35, amended: the following Execute or GetSteps returns the
\* AlreadyComplete sentinel when its own status lookup succeeds; when the
\* lookup fails it returns the reader's error.
C35_SuccessMeansDoneIfReadable ==
    [][ /\ Succeeded' => AllStepsDone'
        /\ (Succeeded /\ ExecuteStartStep /\ storyKey' = storyKey) =>
              err' = (IF LookupFailed' THEN LookupError(storyKey)
                      ELSE ErrStoryComplete)
        /\ (Succeeded /\ GetStepsStep /\ getSteps'.storyKey = storyKey) =>
              getSteps'.err = (IF getSteps'.reads[1].ok THEN ErrStoryComplete
                               ELSE LookupError(storyKey))
      ]_vars

C35_Witness ==
    /\ Succeeded /\ AllStepsDone /\ currentStatus = "backlog"
    /\ getSteps.storyKey = storyKey
    /\ getSteps.reads # << >> /\ getSteps.reads[1].ok
    /\ getSteps.err = ErrStoryComplete

\* ------------------------------------------ two processes, one status file
\* Two engine instances, each with its own Writer on the same base path.
Processes == {"w1", "w2"}

InitConcurrent ==
    /\ InitExecutor
    /\ store = [k \in StoryKeys |-> StatusBacklog]
    /\ cmd = "none" /\ cmdPc = "none" /\ batch = << >>
    /\ InitRouter /\ InitManager /\ InitRunner
    /\ file \in Files
    /\ tmp = NoFile
    /\ wpc = [w \in Processes |-> "idle"]
    /\ wcall = [w \in Processes |-> NoCall]

\* Each process calls UpdateStatus once.
CallOnce(w, key, newStatus, readOk) ==
    /\ wcall[w].n = 0
    /\ UpdateStatusRead(w, key, newStatus, readOk)

\* The steps of the two calls interleave freely: UpdateStatus takes no lock.
NextConcurrent ==
    \/ \E w \in Processes, key \in StoryKeys, newStatus \in ValidStatuses,
          readOk \in BOOLEAN : CallOnce(w, key, newStatus, readOk)
    \/ \E w \in Processes, outcome \in {"ok", "partial", "none"} : WriteTemp(w, outcome)
    \/ \E w \in Processes, ok \in BOOLEAN : RenameTemp(w, ok)
    \/ \E w \in Processes : RemoveTemp(w)

SpecConcurrent == InitConcurrent /\ [][NextConcurrent]_vars

\* Both processes called UpdateStatus, for different stories, and both calls
\* returned nil.
BothSucceeded ==
    /\ \A w \in Processes :
          wpc[w] = "returned" /\ wcall[w].n = 1 /\ wcall[w].err = NoError
    /\ wcall["w1"].storyKey # wcall["w2"].storyKey

\* C36: two UpdateStatus calls for two different story keys that run
\* concurrently against the same status file both take effect: after both
\* returned success each story holds its newly written status.
C36_ConcurrentUpdatesBothApply ==
    BothSucceeded =>
        /\ file.kind = "yaml"
        /\ \A w \in Processes :
              StatusIn(file, wcall[w].storyKey) = wcall[w].newStatus

\* ------------------------------------------------ Execute, run to the end
\* Execute alone, its collaborators answering.
NextRun ==
    \/ \E cb \in BOOLEAN : SetProgressCallback(cb)
    \/ \E key \in StoryKeys, readOk \in BOOLEAN : ExecuteStart(key, readOk)
    \/ CallProgress
    \/ RunSingleCall
    \/ \E exitCode \in ExitCodes : RunSingleReturn(exitCode)
    \/ \E ioOk \in BOOLEAN : UpdateStatus(ioOk)

\* Execute is sequential code: once called it goes on to its next statement,
\* and every call of the callback, the runner and the writer returns.
SpecRun ==
    /\ Init
    /\ [][NextRun]_vars
    /\ WF_vars(CallProgress)
    /\ WF_vars(RunSingleCall)
    /\ WF_vars(\E exitCode \in ExitCodes : RunSingleReturn(exitCode))
    /\ WF_vars(\E ioOk \in BOOLEAN : UpdateStatus(ioOk))

\* The ways a run ends that hold of the returned run.
Outcomes ==
    { o \in {"success", "step failure", "status write failure",
             "lookup failure", "AlreadyComplete", "UnrecognizedStatus"} :
        CASE o = "success" ->
                 err = NoError /\ AllSucceeded /\ Len(writeResults) = Len(steps)
          [] o = "step failure" ->
                 /\ exitCodes # << >> /\ exitCodes[Len(exitCodes)] # 0
                 /\ err.kind = "workflow failed"
          [] o = "status write failure" ->
                 /\ writeResults # << >>
                 /\ writeResults[Len(writeResults)] # NoError
                 /\ err = writeResults[Len(writeResults)]
          [] o = "lookup failure" -> LookupFailed /\ trace = << Event("read", 0) >>
          [] o = "AlreadyComplete" -> err = ErrStoryComplete /\ runnerCalls = << >>
          [] o = "UnrecognizedStatus" -> err = ErrUnknownStatus /\ runnerCalls = << >> }

\* No workflow is run twice and there are at most four runner calls and four
\* status writes.
RunBounded ==
    /\ Len(runnerCalls) <= 4 /\ Len(writerCalls) <= 4
    /\ \A a, b \in 1..Len(runnerCalls) :
          runnerCalls[a].WorkflowName = runnerCalls[b].WorkflowName => a = b

\* C37: every Execute run terminates, given that each collaborator call
\* returns.  It runs each action at most once, makes at most 4 runner calls
\* and 4 status writes, and ends in exactly one of success, step failure,
\* status write failure, lookup failure, AlreadyComplete, UnrecognizedStatus.
C37_ExecuteTerminates ==
    /\ [](RunBounded)
    /\ [](Returned => Cardinality(Outcomes) = 1)
    /\ (~Idle ~> Returned)

C37_Witness ==
    /\ Returned /\ Outcomes = {"status write failure"}
    /\ Len(runnerCalls) = 4 /\ Len(writerCalls) = 4

\* ------------------------------------------------- queue --dry-run fidelity
\* The entries of batchLog with operation op, as (position, story, workflow).
Invocations(op) ==
    LET sel == SelectSeq(batchLog, LAMBDA e : e.op = op)
    IN [j \in 1..Len(sel) |->
           [pos |-> sel[j].pos, key |-> sel[j].key, workflow |-> sel[j].workflow]]

\* What the queue loop invokes from position p on, starting from the store
\* st, when every workflow and every write succeeds: each story's steps are
\* derived from the status the stories before it left behind.
RECURSIVE QueueRun(_, _, _)
QueueRun(st, list, p) ==
    IF p > Len(list)
    THEN << >>
    ELSE LET key == list[p]
             lc == GetLifecycle(st[key])
             after == IF lc.steps = << >> THEN st
                      ELSE [st EXCEPT ![key] = lc.steps[Len(lc.steps)].NextStatus]
         IN [j \in 1..Len(lc.steps) |->
                [pos |-> p, key |-> key, workflow |-> lc.steps[j].Workflow]]
            \o QueueRun(after, list, p + 1)

\* runQueueDryRun went through the whole list without an error.
DryRunEnded == cmd = "queue" /\ cmdPc = "done" /\ pc = "idle" /\ cmdExit = 0

\* The queue loop went through the whole list without an error.
QueueRunEnded == cmd = "queue" /\ BatchEnded /\ cmdExit = 0

\* Every story of the list had a valid status when the command started.
AllValid == \A p \in 1..Len(batch) : IsValid(initStore[batch[p]])

\* C38: queue dry-run fidelity.  For any list of story keys, a key appearing
\* twice included, whose statuses are all valid, the workflows the dry run
\* lists per story, in order, are the workflows the real queue run invokes
\* from the same initial status store when every workflow and write succeeds;
\* and the dry run invokes no workflow and writes no status.
C38_DryRunMatchesRealRun ==
    /\ (QueueRunEnded /\ AllValid) =>
          Invocations("run") = QueueRun(initStore, batch, 1)
    /\ (DryRunEnded /\ AllValid) =>
          /\ Invocations("list") = QueueRun(initStore, batch, 1)
          /\ Invocations("run") = << >> /\ Invocations("write") = << >>
          /\ runnerCalls = << >> /\ writerCalls = << >>
          /\ store = initStore

====
